---------------------------- MODULE Spec2Model ----------------------------
(***************************************************************************)
(* A model of adcreativeflow-db-sync: the resumable warehouse->sink sync   *)
(* engine (run_batch as a state machine over batches of one run), and the  *)
(* dispatch layer of the worker (run-and-resume endpoint, cron handler,    *)
(* dashboard client) driving the spreadsheet->warehouse handler.           *)
(***************************************************************************)
EXTENDS Integers, Sequences, FiniteSets, TLC

(***************************************************************************)
(* Bounds of the model.  The page limit, the upsert sub-batch size and the *)
(* delete chunk size are 5000, 2500 and 200 in the program; the model      *)
(* keeps their roles and scales them to the size of the tables it draws.   *)
(***************************************************************************)
MaxKey == 2
MaxInc == 2
MaxRuns == 2
BATCH_LIMIT == 2
UPSERT_BATCH_SIZE == 1
DELETE_BATCH_SIZE == 1
MaxSheetRows == 4
BATCH_SIZE == 2
MaxCron == 1
MaxClient == 1
MaxApi == 2
LOG_LIMIT == 2
MaxLogRuns == 2
MaxLogBatches == 2
MaxLogCalls == 4
MaxLogClock == 2
MaxFields == 2
MaxSinkFields == 3
MaxTokenCalls == 3
MaxTokenTicks == 2
MaxPages == 3
MaxPageRows == 1
MantissaBits == 5
MaxJobs == 2
MaxSweeps == 1
MaxManual == 1
MaxSweepBatches == 2
MaxAdmin == 2
MaxSyncs == 1
MaxWindows == 3
MaxIndexRuns == 2
RUNS_KEPT == 10

None == [none |-> TRUE]

\* an optional scalar: null, or a value
Null == <<>>

Some(v) == <<v>>

VARIABLES
    job,             \* the job configuration of the run (read-only for the engine)
    source,          \* the warehouse table: a set of rows
    sink,            \* the sink table: a set of rows carrying synced_at
    runNo,           \* number of runs started so far
    batchNumber,     \* batch number of the current invocation
    pc,              \* state of the run's state machine
    runState,        \* the Run State record in the state store, or None
    page,            \* the page fetched by the current batch
    subIdx,          \* rows of the page already upserted
    toDelete,        \* delete targets not yet handed to the sink
    rowsDeleted,     \* rows removed by the delete phase of this run
    lastError,       \* error kind of a failed run, or ""
    logs,            \* <<level, phase>> tags logged by the current run
    upserted,        \* history: per batch of the run, the keys it upserted
    cursorLog,       \* history: the cursors written to Run State by the run
    lastSyncAtStart, \* history: last-sync-value read at run start
    sinkAtStart,     \* history: the sink when the run started
    sinkBeforeDelete,\* history: the sink when the delete phase was entered
    candidatesSeen,  \* history: the delete candidates the phase computed
    sinkAfterRun     \* history: the sink after each successful run

engineVars == <<job, source, sink, runNo, batchNumber, pc, runState, page, subIdx,
                toDelete, rowsDeleted, lastError, logs, upserted, cursorLog,
                lastSyncAtStart, sinkAtStart, sinkBeforeDelete, candidatesSeen,
                sinkAfterRun>>

VARIABLES
    sheetRows,       \* the number of data rows of the sheet, from row 2 on
    append,          \* job.sheets.append
    bqTable,         \* the warehouse table: copies held of each sheet row, of older content at 0
    kv,              \* sheets_sync_state:{job}:{run}, None when the key is absent
    runsIndex,       \* logs:{job}:runs, newest first
    cfg,             \* job:{id} in the configuration store
    calls,           \* triggers of runJobWithAutoContinuation not yet begun
    active,          \* invocations of a batch that have begun and not returned
    client,          \* the dashboard's syncJob loop
    response,        \* the HTTP response on its way to the dashboard
    nextId,          \* the next fresh run id
    nextCall,        \* the next call id
    cronFired,       \* scheduled firings so far
    clientStarts,    \* syncJob clicks so far
    startLog,        \* history: <<run, batch>> of every batch begun
    loadLog,         \* history: <<run, first row, rows>> of every load
    statusWritten,   \* history: the runs that wrote lastStatus
    cronRuns,        \* history: the runs a scheduled firing started
    envOk,           \* the worker's credentials are all configured
    threw,           \* history: the runs of which a batch threw
    terminalDone,    \* history: the runs of which a terminal batch completed
    triggerLost,     \* history: the runs of which a next-batch request failed
    expired          \* history: the runs whose state key expired

dispatchVars == <<sheetRows, append, bqTable, kv, runsIndex, cfg, calls, active, client,
                  response, nextId, nextCall, cronFired, clientStarts, startLog, loadLog,
                  statusWritten, cronRuns, envOk, threw, terminalDone, triggerLost,
                  expired>>

VARIABLES
    apiCount,        \* requests to the admin surface served so far
    apiRequest,      \* the last request: method, path, Authorization header, body key
    apiResponse,     \* the answer to the last request: its status, the store accesses and
                     \* the batches the request made
    storeOps,        \* the accesses made so far to the config, log and state stores
    apiBatches       \* batches started so far by requests

apiVars == <<apiCount, apiRequest, apiResponse, storeOps, apiBatches>>

VARIABLES
    metadata,        \* the metadata handed to a call of the Run Logger, Null when none
    entry            \* the log entry the call has made, Null before the call

sanitizeVars == <<metadata, entry>>

VARIABLES
    logger,          \* the Logger of the invocation under way: run, batch, store handed over, logCount
    logBatches,      \* per run, the batches begun so far
    logStore,        \* the entries in the log store, one per key logs:{job}:{run}:{ms}
    logClock,        \* Date.now()
    consoleLog,      \* the entries written to the console
    overflow,        \* the entries logged once the limit was reached
    logCalls,        \* calls of the Logger so far
    logLedger,       \* the entries the Loggers have made, with what became of each
    logEnded         \* the runs whose last batch has ended the run

loggerVars == <<logger, logBatches, logStore, logClock, consoleLog, overflow, logCalls,
                logLedger, logEnded>>

VARIABLES
    bqSchema,        \* the fields of the source schema
    upsertKeys,   \* job.supabase.upsertColumns
    sinkTable,       \* the columns of the sink table, Null when the table does not exist
    uniqueConstraint, \* the constraint <table>_unique_idx exists
    schemaPc,        \* position of batch 1 in its schema sync
    schemaError,     \* the error batch 1 has failed with
    statements,      \* the DDL statements executed on the sink
    validation,      \* the result of validateUpsertColumns, Null before it
    schemaChanges,   \* the result of detectSchemaChanges with its arguments, Null before it
    upsertsDone      \* the data syncs done

schemaVars == <<bqSchema, upsertKeys, sinkTable, uniqueConstraint, schemaPc, schemaError, statements, validation, schemaChanges, upsertsDone>>

VARIABLES
    readPc,          \* position of the read: Idle, Fetching, Returned, Failed
    responses,       \* the statuses of the responses received, in order
    delays           \* the waits made after them, in milliseconds

retryVars == <<readPc, responses, delays>>

VARIABLES
    tokenCache,      \* per scope, accessToken (Null before the first fetch) and tokenExpiry
    tokenClock,      \* the time, in seconds
    handouts,        \* the tokens handed out: scope of the client, token, time, from the cache or not
    tokenCalls,      \* calls made so far
    tokenTicks       \* steps of the clock so far

tokenVars == <<tokenCache, tokenClock, handouts, tokenCalls, tokenTicks>>

VARIABLES
    qPages,          \* the answers of the query job, page by page
    jobComplete,     \* jobComplete of the first answer
    qPc,             \* position of queryPaginated
    qError,          \* the error it has thrown
    allRows,         \* the rows gathered so far
    pageToken,       \* the page token held, Null when none
    followUps,       \* follow-up requests made so far
    qResult          \* the rows returned, Null when nothing was returned

queryVars == <<qPages, jobComplete, qPc, qError, allRows, pageToken, followUps, qResult>>

VARIABLES
    parseSchema,     \* the types of the fields of the schema
    forceStringFields, \* the names of the fields kept as strings
    rawInts,         \* the integers of the row in the warehouse, Null for a null
    rawRow,          \* the values of the row as the warehouse sends them
    parsedRow        \* the object parseRows made of the row, Null before the call

parseVars == <<parseSchema, forceStringFields, rawInts, rawRow, parsedRow>>

VARIABLES
    storedJobs,      \* the jobs of the configuration store
    sweep,           \* the handler going through the jobs: its kind, number, cron expression, place in the loop
    executing,       \* the runs of runJobWithAutoContinuation not settled yet
    started,         \* the batch-1 runs started, by sweep number and job
    settled,         \* the runs that ended, by sweep number, job and outcome
    results,         \* the results list of POST /api/sync/all
    manualCount      \* POST /api/sync/:id requests of the dashboard so far

sweepVars == <<storedJobs, sweep, executing, started, settled, results, manualCount>>

VARIABLES
    configs,         \* the configuration store: the job stored under each key job:{k}
    lastReq,         \* the save request answered last and its answer, Null after any other step
    inFlight,        \* the batches running: the key read, the job object read, the change made to the key since
    finished,        \* the status writes made: the store before and after
    adminCount,      \* requests to /api/configs so far
    syncCount        \* POST /api/sync/:id requests so far

storeVars == <<configs, lastReq, inFlight, finished, adminCount, syncCount>>

VARIABLES
    longSheet,       \* the number of data rows of the sheet
    sheetState,      \* the Run State stored for the run, Null when there is none
    posts,           \* the requests for a batch of the run not handled yet
    running,         \* the invocations of the run between their read and their write
    stateWrites,     \* the states written at the end of a batch: batch number, lastProcessedRow, totalRows
    windowReads,     \* the windows read: batch number, first row
    dashStarted,     \* the dashboard has started the run
    loadFailures     \* the batches whose load threw: the state before the batch, at its read, after the throw

windowVars == <<longSheet, sheetState, posts, running, stateWrites, windowReads, dashStarted, loadFailures>>

VARIABLES
    keyColumns,      \* the upsert columns of the job
    keyForceSet,     \* bigquery.forceStringFields
    bqKeyInts,       \* the key rows of the source
    sbKeyInts,       \* the key rows of the sink
    deleteCandidates \* the result of the delete scan, Null before it

keysVars == <<keyColumns, keyForceSet, bqKeyInts, sbKeyInts, deleteCandidates>>

VARIABLES
    indexRuns,       \* the run index of the job in the store, newest first
    indexCall        \* per run, where its startRun or endRun stands and the index it has read

indexVars == <<indexRuns, indexCall>>

libVars == <<sanitizeVars, loggerVars, schemaVars, retryVars, tokenVars, queryVars, parseVars, sweepVars, storeVars, windowVars, keysVars, indexVars>>

vars == <<engineVars, dispatchVars, apiVars, libVars>>

(***************************************************************************)
(* Rows and job configurations.                                            *)
(***************************************************************************)
Columns == {"k1", "k2", "inc"}

SourceRows == [k1 : 1..MaxKey, k2 : 1..MaxKey, inc : 1..MaxInc]

SinkRows == [k1 : 1..MaxKey, k2 : 1..MaxKey, inc : 1..MaxInc, synced_at : 0..MaxRuns]

Jobs == [upsertColumns : {<<"k1">>, <<"k1", "k2">>},
         incrementalColumn : {"", "inc"},
         incType : {"DATE", "TIMESTAMP"}]

\* JSON.stringify(columns.map(col => row[col])): the values in declared order
serializeKey(row, columns) == [i \in 1..Len(columns) |-> row[columns[i]]]

KeyOf(row) == serializeKey(row, job.upsertColumns)

\* the unique constraint <table>_unique_idx over the upsert columns
UniqueKeys(rows, columns) ==
    \A r1, r2 \in rows : serializeKey(r1, columns) = serializeKey(r2, columns) => r1 = r2

\* the non-engine columns of a sink row
Data(row) == [c \in Columns |-> row[c]]

SetMax(S) == CHOOSE x \in S : \A y \in S : y <= x

Min(a, b) == IF a < b THEN a ELSE b

(***************************************************************************)
(* Sink Client.                                                            *)
(***************************************************************************)
\* getLastSyncDateFromTable: the greatest value of the column, null on an empty table
getLastSyncDateFromTable(table, column) ==
    IF table = {} THEN Null ELSE Some(SetMax({r[column] : r \in table}))

\* one row of an upsert: update on conflict over the upsert columns (synced_at is
\* not part of the payload and keeps its value), insert otherwise (synced_at
\* takes its default, the time of the insert)
UpsertRow(table, row, columns, now) ==
    IF \E s \in table : serializeKey(s, columns) = serializeKey(row, columns)
    THEN {IF serializeKey(s, columns) = serializeKey(row, columns)
          THEN [c \in Columns \cup {"synced_at"} |->
                    IF c = "synced_at" THEN s.synced_at ELSE row[c]]
          ELSE s : s \in table}
    ELSE table \cup {[c \in Columns \cup {"synced_at"} |->
                         IF c = "synced_at" THEN now ELSE row[c]]}

RECURSIVE upsertTableData(_, _, _, _)
upsertTableData(table, data, onConflict, now) ==
    IF data = <<>> THEN table
    ELSE upsertTableData(UpsertRow(table, Head(data), onConflict, now),
                         Tail(data), onConflict, now)

\* delete(table, key_columns, key_tuples): the rows whose key is one of the tuples
deleteRows(table, columns, keys) ==
    {s \in table : serializeKey(s, columns) \notin keys}

(***************************************************************************)
(* The incremental filter and the compound cursor.                         *)
(***************************************************************************)
\* the strict operator for every type
FilterOperator_Strict(type) == ">"

\* '>' for TIMESTAMP, '>=' for every other type of the incremental column
FilterOperator(type) == IF type = "TIMESTAMP" THEN ">" ELSE ">="

PassFilter(row, lastSyncDate) ==
    IF lastSyncDate # Null /\ job.incrementalColumn # ""
    THEN IF FilterOperator(job.incType) = ">"
         THEN row[job.incrementalColumn] > lastSyncDate[1]
         ELSE row[job.incrementalColumn] >= lastSyncDate[1]
    ELSE TRUE

\* the cursor columns: the incremental column (the first upsert column when the
\* job has none) and the tie-breaker, the first upsert column
IncCol == IF job.incrementalColumn # "" THEN job.incrementalColumn ELSE job.upsertColumns[1]

TieCol == job.upsertColumns[1]

CursorOf(row) == [inc |-> row[IncCol], tie |-> row[TieCol]]

\* strict lexicographic order on cursor tuples
CursorLess(a, b) == a.inc < b.inc \/ (a.inc = b.inc /\ a.tie < b.tie)

\* the cursor predicate with a non-strict tie comparison
PassCursor_NonStrict(row, cursor) ==
    cursor = None \/ row[IncCol] > cursor.inc
                  \/ (row[IncCol] = cursor.inc /\ row[TieCol] >= cursor.tie)

\* ((inc > c_inc) OR (inc = c_inc AND tie > c_tie))
PassCursor(row, cursor) ==
    cursor = None \/ row[IncCol] > cursor.inc
                  \/ (row[IncCol] = cursor.inc /\ row[TieCol] > cursor.tie)

\* the rows the query of a batch selects
Selected(lastSyncDate, cursor) ==
    {r \in source : PassFilter(r, lastSyncDate) /\ PassCursor(r, cursor)}

\* ORDER BY inc ASC, tie ASC LIMIT n: every sequence of n distinct selected rows
\* in that order that no omitted row precedes; rows equal on (inc, tie) come in
\* any order
QueryPages(rows, n) ==
    LET len == Min(n, Cardinality(rows)) IN
    {p \in [1..len -> rows] :
        /\ \A i, j \in 1..len : i < j => p[i] # p[j] /\ ~CursorLess(CursorOf(p[j]), CursorOf(p[i]))
        /\ \A r \in rows : (\A i \in 1..len : p[i] # r)
                              => \A i \in 1..len : ~CursorLess(CursorOf(r), CursorOf(p[i]))}

(***************************************************************************)
(* Delete detection.                                                       *)
(***************************************************************************)
\* the set difference taken over the first key column only
idsToDelete_FirstColumn(bigQueryRows, supabaseRows, columns) ==
    LET bqSet == {r[columns[1]] : r \in bigQueryRows} IN
    {serializeKey(s, columns) : s \in {t \in supabaseRows : t[columns[1]] \notin bqSet}}

\* sink rows whose serialized key is not the serialized key of a source row
idsToDelete(bigQueryRows, supabaseRows, columns) ==
    LET bqSet == {serializeKey(r, columns) : r \in bigQueryRows} IN
    {serializeKey(s, columns) : s \in {t \in supabaseRows : serializeKey(t, columns) \notin bqSet}}

\* the threshold without its factor 0.5
exceedsThreshold_NoHalf(deletesToMake, supabaseRowCount) == deletesToMake > supabaseRowCount

\* the threshold with a non-strict comparison
exceedsThreshold_NonStrict(deletesToMake, supabaseRowCount) == 2 * deletesToMake >= supabaseRowCount

\* deletesToMake > supabaseRowCount * 0.5
exceedsThreshold(deletesToMake, supabaseRowCount) == 2 * deletesToMake > supabaseRowCount

RECURSIVE SetToSeq(_)
SetToSeq(S) == IF S = {} THEN <<>>
               ELSE LET x == CHOOSE y \in S : TRUE IN <<x>> \o SetToSeq(S \ {x})

(***************************************************************************)
(* The state machine of a run.                                             *)
(***************************************************************************)
EngineInit ==
    /\ job \in Jobs
    /\ source \in {s \in SUBSET SourceRows : UniqueKeys(s, job.upsertColumns)}
    /\ sink \in {s \in SUBSET [k1 : 1..MaxKey, k2 : 1..MaxKey, inc : 1..MaxInc, synced_at : {0}] :
                    UniqueKeys(s, job.upsertColumns)}
    /\ runNo = 0
    /\ batchNumber = 0
    /\ pc = "Idle"
    /\ runState = None
    /\ page = <<>>
    /\ subIdx = 0
    /\ toDelete = <<>>
    /\ rowsDeleted = 0
    /\ lastError = ""
    /\ logs = {}
    /\ upserted = <<>>
    /\ cursorLog = <<>>
    /\ lastSyncAtStart = Null
    /\ sinkAtStart = {}
    /\ sinkBeforeDelete = Null
    /\ candidatesSeen = Null
    /\ sinkAfterRun = <<>>

\* Init and Reconcile of batch 1: open the run, read the last-sync-value from the
\* sink, persist Run State with schema_sync_done
StartRun ==
    /\ pc \in {"Idle", "Success", "Failed"}
    /\ runNo < MaxRuns
    /\ runNo' = runNo + 1
    /\ batchNumber' = 1
    /\ \E readFails \in (IF job.incrementalColumn # "" THEN BOOLEAN ELSE {FALSE}) :
          LET lastSyncDate == IF job.incrementalColumn # "" /\ ~readFails
                              THEN getLastSyncDateFromTable(sink, job.incrementalColumn)
                              ELSE Null
          IN /\ runState' = [lastSyncValue |-> lastSyncDate, rowsProcessed |-> 0,
                             schemaSyncDone |-> TRUE, cursor |-> None]
             /\ lastSyncAtStart' = lastSyncDate
             /\ logs' = {<<"INFO", "SYNC_START">>}
                         \cup (IF readFails THEN {<<"WARNING", "INCREMENTAL">>} ELSE {})
    /\ pc' = "Fetch"
    /\ page' = <<>>
    /\ subIdx' = 0
    /\ toDelete' = <<>>
    /\ rowsDeleted' = 0
    /\ lastError' = ""
    /\ upserted' = <<>>
    /\ cursorLog' = <<>>
    /\ sinkAtStart' = sink
    /\ sinkBeforeDelete' = Null
    /\ candidatesSeen' = Null
    /\ UNCHANGED <<job, source, sink, sinkAfterRun>>
    /\ UNCHANGED <<dispatchVars, apiVars, libVars>>

\* Init of a batch after the first: load Run State, RunExpired when it is missing,
\* SchemaIncomplete when schema_sync_done is false
ResumeBatch ==
    /\ pc = "Returned"
    /\ batchNumber' = batchNumber + 1
    /\ IF runState = None
       THEN pc' = "Failed" /\ lastError' = "RunExpired"
       ELSE IF ~runState.schemaSyncDone
       THEN pc' = "Failed" /\ lastError' = "SchemaIncomplete"
       ELSE pc' = "Fetch" /\ UNCHANGED lastError
    /\ UNCHANGED <<job, source, sink, runNo, runState, page, subIdx, toDelete, rowsDeleted,
                   logs, upserted, cursorLog, lastSyncAtStart, sinkAtStart,
                   sinkBeforeDelete, candidatesSeen, sinkAfterRun>>
    /\ UNCHANGED <<dispatchVars, apiVars, libVars>>

\* the 24 hour expirationTtl of the Run State key elapses between two batches
ExpireRunState ==
    /\ pc = "Returned"
    /\ runState # None
    /\ runState' = None
    /\ UNCHANGED <<job, source, sink, runNo, batchNumber, pc, page, subIdx, toDelete,
                   rowsDeleted, lastError, logs, upserted, cursorLog, lastSyncAtStart,
                   sinkAtStart, sinkBeforeDelete, candidatesSeen, sinkAfterRun>>
    /\ UNCHANGED <<dispatchVars, apiVars, libVars>>

\* Fetch: one bounded page of the source under the filter and the carried cursor
Fetch ==
    /\ pc = "Fetch"
    /\ \E p \in QueryPages(Selected(runState.lastSyncValue,
                                    IF batchNumber > 1 THEN runState.cursor ELSE None),
                           BATCH_LIMIT) :
          /\ page' = p
          /\ pc' = IF Len(p) = 0 THEN "FinalDeleteScan" ELSE "Upsert"
    /\ subIdx' = 0
    /\ upserted' = Append(upserted, {})
    /\ UNCHANGED <<job, source, sink, runNo, batchNumber, runState, toDelete, rowsDeleted,
                   lastError, logs, cursorLog, lastSyncAtStart, sinkAtStart,
                   sinkBeforeDelete, candidatesSeen, sinkAfterRun>>
    /\ UNCHANGED <<dispatchVars, apiVars, libVars>>

\* the delete phase entered after the last sub-batch of every page
UpsertSubBatch_EveryBatch ==
    /\ pc = "Upsert"
    /\ subIdx < Len(page)
    /\ LET last == Min(subIdx + UPSERT_BATCH_SIZE, Len(page))
           upsertBatch == SubSeq(page, subIdx + 1, last)
       IN /\ sink' = upsertTableData(sink, upsertBatch, job.upsertColumns, runNo)
          /\ subIdx' = last
          /\ upserted' = [upserted EXCEPT ![Len(upserted)] =
                             @ \cup {KeyOf(upsertBatch[i]) : i \in 1..Len(upsertBatch)}]
          /\ pc' = IF last < Len(page) THEN "Upsert" ELSE "FinalDeleteScan"
    /\ UNCHANGED <<job, source, runNo, batchNumber, runState, page, toDelete, rowsDeleted,
                   lastError, logs, cursorLog, lastSyncAtStart, sinkAtStart,
                   sinkBeforeDelete, candidatesSeen, sinkAfterRun>>
    /\ UNCHANGED <<dispatchVars, apiVars, libVars>>

\* Upsert: the next sub-batch of the page, in query order
UpsertSubBatch ==
    /\ pc = "Upsert"
    /\ subIdx < Len(page)
    /\ LET last == Min(subIdx + UPSERT_BATCH_SIZE, Len(page))
           upsertBatch == SubSeq(page, subIdx + 1, last)
       IN /\ sink' = upsertTableData(sink, upsertBatch, job.upsertColumns, runNo)
          /\ subIdx' = last
          /\ upserted' = [upserted EXCEPT ![Len(upserted)] =
                             @ \cup {KeyOf(upsertBatch[i]) : i \in 1..Len(upsertBatch)}]
          /\ pc' = IF last < Len(page) THEN "Upsert"
                   ELSE IF Len(page) = BATCH_LIMIT THEN "Persist" ELSE "FinalDeleteScan"
    /\ UNCHANGED <<job, source, runNo, batchNumber, runState, page, toDelete, rowsDeleted,
                   lastError, logs, cursorLog, lastSyncAtStart, sinkAtStart,
                   sinkBeforeDelete, candidatesSeen, sinkAfterRun>>
    /\ UNCHANGED <<dispatchVars, apiVars, libVars>>

\* a sink upsert is rejected: the batch fails, the run ends as error
UpsertFail ==
    /\ pc = "Upsert"
    /\ subIdx < Len(page)
    /\ pc' = "Failed"
    /\ lastError' = "SinkUpsertFailed"
    /\ logs' = logs \cup {<<"ERROR", "SYNC_ERROR">>}
    /\ UNCHANGED <<job, source, sink, runNo, batchNumber, runState, page, subIdx, toDelete,
                   rowsDeleted, upserted, cursorLog, lastSyncAtStart, sinkAtStart,
                   sinkBeforeDelete, candidatesSeen, sinkAfterRun>>
    /\ UNCHANGED <<dispatchVars, apiVars, libVars>>

\* Persist: a full page; the cursor of its last row and the totals go to Run State
\* and the batch returns hasMore = true
Persist ==
    /\ pc = "Persist"
    /\ LET cursor == CursorOf(page[Len(page)])
       IN /\ runState' = [runState EXCEPT !.cursor = cursor,
                                          !.rowsProcessed = @ + Len(page)]
          /\ cursorLog' = Append(cursorLog, cursor)
    /\ pc' = "Returned"
    /\ UNCHANGED <<job, source, sink, runNo, batchNumber, page, subIdx, toDelete, rowsDeleted,
                   lastError, logs, upserted, lastSyncAtStart, sinkAtStart,
                   sinkBeforeDelete, candidatesSeen, sinkAfterRun>>
    /\ UNCHANGED <<dispatchVars, apiVars, libVars>>

\* the delete phase without gate A
DeleteScan_NoGateA ==
    /\ pc = "FinalDeleteScan"
    /\ sinkBeforeDelete' = Some(sink)
    /\ IF sink = {}
       THEN /\ toDelete' = <<>>
            /\ pc' = "Delete"
            /\ UNCHANGED <<logs, lastError, candidatesSeen>>
       ELSE LET candidates == idsToDelete(source, sink, job.upsertColumns) IN
            /\ candidatesSeen' = Some(candidates)
            /\ IF exceedsThreshold(Cardinality(candidates), Cardinality(sink))
               THEN /\ pc' = "Failed"
                    /\ lastError' = "DestructiveAnomaly"
                    /\ logs' = logs \cup {<<"ERROR", "SYNC_ERROR">>}
                    /\ UNCHANGED toDelete
               ELSE /\ toDelete' = SetToSeq(candidates)
                    /\ pc' = "Delete"
                    /\ UNCHANGED <<logs, lastError>>
    /\ UNCHANGED <<job, source, sink, runNo, batchNumber, runState, page, subIdx,
                   rowsDeleted, upserted, cursorLog, lastSyncAtStart, sinkAtStart,
                   sinkAfterRun>>
    /\ UNCHANGED <<dispatchVars, apiVars, libVars>>

\* FinalDeleteScan: the source keys, gate A; the sink keys, gate B; the
\* difference, gate C; the targets left for the sink's delete
DeleteScan ==
    /\ pc = "FinalDeleteScan"
    /\ sinkBeforeDelete' = Some(sink)
    /\ IF source = {}
       THEN /\ logs' = logs \cup {<<"WARNING", "DELETE_DETECTION">>}
            /\ toDelete' = <<>>
            /\ pc' = "Delete"
            /\ UNCHANGED <<lastError, candidatesSeen>>
       ELSE IF sink = {}
       THEN /\ toDelete' = <<>>
            /\ pc' = "Delete"
            /\ UNCHANGED <<logs, lastError, candidatesSeen>>
       ELSE LET candidates == idsToDelete(source, sink, job.upsertColumns) IN
            /\ candidatesSeen' = Some(candidates)
            /\ IF exceedsThreshold(Cardinality(candidates), Cardinality(sink))
               THEN /\ pc' = "Failed"
                    /\ lastError' = "DestructiveAnomaly"
                    /\ logs' = logs \cup {<<"ERROR", "SYNC_ERROR">>}
                    /\ UNCHANGED toDelete
               ELSE /\ toDelete' = SetToSeq(candidates)
                    /\ pc' = "Delete"
                    /\ UNCHANGED <<logs, lastError>>
    /\ UNCHANGED <<job, source, sink, runNo, batchNumber, runState, page, subIdx,
                   rowsDeleted, upserted, cursorLog, lastSyncAtStart, sinkAtStart,
                   sinkAfterRun>>
    /\ UNCHANGED <<dispatchVars, apiVars, libVars>>

\* Delete: the next chunk of targets goes to the sink's delete
DeleteChunk ==
    /\ pc = "Delete"
    /\ toDelete # <<>>
    /\ LET n == Min(DELETE_BATCH_SIZE, Len(toDelete))
           chunk == {toDelete[i] : i \in 1..n}
           after == deleteRows(sink, job.upsertColumns, chunk)
       IN /\ sink' = after
          /\ rowsDeleted' = rowsDeleted + (Cardinality(sink) - Cardinality(after))
          /\ toDelete' = SubSeq(toDelete, n + 1, Len(toDelete))
    /\ UNCHANGED <<job, source, runNo, batchNumber, pc, runState, page, subIdx, lastError,
                   logs, upserted, cursorLog, lastSyncAtStart, sinkAtStart,
                   sinkBeforeDelete, candidatesSeen, sinkAfterRun>>
    /\ UNCHANGED <<dispatchVars, apiVars, libVars>>

\* FinalDeleteScan -> Success: the run ends with success, Run State is deleted
CompleteRun ==
    /\ pc = "Delete"
    /\ toDelete = <<>>
    /\ pc' = "Success"
    /\ runState' = None
    /\ logs' = logs \cup {<<"SUCCESS", "SYNC_COMPLETE">>}
    /\ sinkAfterRun' = Append(sinkAfterRun, [run |-> runNo, table |-> sink])
    /\ UNCHANGED <<job, source, sink, runNo, batchNumber, page, subIdx, toDelete,
                   rowsDeleted, lastError, upserted, cursorLog, lastSyncAtStart,
                   sinkAtStart, sinkBeforeDelete, candidatesSeen>>
    /\ UNCHANGED <<dispatchVars, apiVars, libVars>>

EngineNext ==
    \/ StartRun
    \/ ResumeBatch
    \/ ExpireRunState
    \/ Fetch
    \/ UpsertSubBatch
    \/ UpsertFail
    \/ Persist
    \/ DeleteScan
    \/ DeleteChunk
    \/ CompleteRun

(***************************************************************************)
(* The dispatch layer: scheduled firings, POST /api/sync/:id, the batches   *)
(* of a spreadsheet run and the dashboard's loop.                          *)
(***************************************************************************)
MaxRunIds == MaxCron + MaxClient

RunIds == 1..MaxRunIds

NoResponse == [present |-> FALSE]

\* the job as the configuration store holds it before any run of the model, with
\* the summary of an earlier run
StoredJob ==
    [lastStatus |-> "", lastError |-> "",
     lastSummary |-> [rowsSynced |-> MaxSheetRows + 1, deleted |-> Null]]

\* the messages of the errors a batch can throw
ErrorMessages == {"Sync state not found", "load failed"}

CredentialMessage == "SUPABASE_URL is missing."

\* hasMore on every page that is not empty
HasMore_NonEmpty(rowCount) == rowCount > 0

\* hasMore = rowCount === BATCH_SIZE
HasMore(rowCount) == rowCount = BATCH_SIZE

\* a write mode chosen by the append flag alone
WriteDisposition_ByFlag(batch, appendFlag) ==
    IF ~appendFlag THEN "WRITE_TRUNCATE" ELSE "WRITE_APPEND"

\* shouldTruncate = batch 1 and not append; WRITE_TRUNCATE or WRITE_APPEND
WriteDisposition(batch, appendFlag) ==
    IF batch = 1 /\ ~appendFlag THEN "WRITE_TRUNCATE" ELSE "WRITE_APPEND"

\* a summary with the rows of the last batch for the rows of the run
FormatSummary_Zero(totalRows, deleted) ==
    [rowsSynced |-> 0, deleted |-> IF deleted > 0 THEN Some(deleted) ELSE Null]

\* lastSummary: rows synced, the deleted part only when rows were deleted (the
\* duration is not modelled)
FormatSummary(totalRows, deleted) ==
    [rowsSynced |-> totalRows, deleted |-> IF deleted > 0 THEN Some(deleted) ELSE Null]

\* the response of POST /api/sync/:id to an error thrown by the run
ErrorResponse(message) ==
    [present |-> TRUE, ok |-> FALSE, status |-> 500, error |-> message, runId |-> 0,
     hasMore |-> FALSE, nextBatch |-> 0]

\* Logger.startRun: the run enters the index as running, the newest 10 are kept
startRun(runs, runId) ==
    LET updatedRuns == <<[runId |-> runId, status |-> "running"]>> \o runs
    IN SubSeq(updatedRuns, 1, Min(Len(updatedRuns), RUNS_KEPT))

\* an endRun that leaves the index as it is
endRun_Unchanged(runs, runId, status) == runs

\* Logger.endRun: the entries of the run take the status
endRun(runs, runId, status) ==
    [i \in DOMAIN runs |->
        IF runs[i].runId = runId THEN [runs[i] EXCEPT !.status = status] ELSE runs[i]]

\* getSheetRange(startRow:endRow): how many of the sheet's rows 2..sheetRows+1
\* are in the range
RowsInRange(startRow, endRow) ==
    LET lastRow == Min(endRow, sheetRows + 1)
    IN IF lastRow < startRow THEN 0 ELSE lastRow - startRow + 1

\* the sheet rows of a batch, numbered from 1 at sheet row 2
Window(startRow, rowCount) == (startRow - 1)..(startRow + rowCount - 2)

\* the Run Logger before any call
SanitizeAtRest ==
    /\ metadata = Null
    /\ entry = Null

\* the log store and the Logger before any batch
LoggerAtRest ==
    /\ logger = None
    /\ logBatches = [r \in 1..MaxLogRuns |-> 0]
    /\ logStore = {}
    /\ logClock = 0
    /\ consoleLog = {}
    /\ overflow = {}
    /\ logCalls = 0
    /\ logLedger = {}
    /\ logEnded = {}

\* the schema sync before any batch
SchemaAtRest ==
    /\ bqSchema = <<>>
    /\ upsertKeys = <<>>
    /\ sinkTable = Null
    /\ uniqueConstraint = FALSE
    /\ schemaPc = "Idle"
    /\ schemaError = ""
    /\ statements = <<>>
    /\ validation = Null
    /\ schemaChanges = Null
    /\ upsertsDone = 0

\* the spreadsheet client before any read
RetryAtRest ==
    /\ readPc = "Idle"
    /\ responses = <<>>
    /\ delays = <<>>

\* the token caches of two new clients
TokenAtRest ==
    /\ tokenCache = [s \in {"bigquery", "spreadsheets.readonly"} |-> [accessToken |-> Null, tokenExpiry |-> 0]]
    /\ tokenClock = 0
    /\ handouts = {}
    /\ tokenCalls = 0
    /\ tokenTicks = 0

\* the warehouse client before any query
QueryAtRest ==
    /\ qPages = <<>>
    /\ jobComplete = FALSE
    /\ qPc = "Idle"
    /\ qError = ""
    /\ allRows = <<>>
    /\ pageToken = Null
    /\ followUps = 0
    /\ qResult = Null

\* the warehouse client before any row is parsed
ParseAtRest ==
    /\ parseSchema = <<>>
    /\ forceStringFields = {}
    /\ rawInts = <<>>
    /\ rawRow = <<>>
    /\ parsedRow = Null

\* the dispatch over the stored jobs before any firing or request
SweepAtRest ==
    /\ storedJobs = <<>>
    /\ sweep = [kind |-> "idle", no |-> 0, cron |-> <<>>, k |-> 1, awaiting |-> FALSE]
    /\ executing = {}
    /\ started = {}
    /\ settled = {}
    /\ results = <<>>
    /\ manualCount = 0

\* the configuration store before any request
StoreAtRest ==
    /\ configs = <<>>
    /\ lastReq = Null
    /\ inFlight = {}
    /\ finished = {}
    /\ adminCount = 0
    /\ syncCount = 0

\* the spreadsheet run before the dashboard starts it
WindowAtRest ==
    /\ longSheet = 0
    /\ sheetState = Null
    /\ posts = {}
    /\ running = {}
    /\ stateWrites = {}
    /\ windowReads = {}
    /\ dashStarted = FALSE
    /\ loadFailures = {}

\* delete detection over integer keys before the scan
KeysAtRest ==
    /\ keyColumns = <<>>
    /\ keyForceSet = {}
    /\ bqKeyInts = {}
    /\ sbKeyInts = {}
    /\ deleteCandidates = Null

\* the run index before any run
IndexAtRest ==
    /\ indexRuns = <<>>
    /\ indexCall = <<>>

\* the clients and helpers before any call
LibAtRest ==
    /\ SanitizeAtRest
    /\ LoggerAtRest
    /\ SchemaAtRest
    /\ RetryAtRest
    /\ TokenAtRest
    /\ QueryAtRest
    /\ ParseAtRest
    /\ SweepAtRest
    /\ StoreAtRest
    /\ WindowAtRest
    /\ KeysAtRest
    /\ IndexAtRest

\* the admin surface before any request
ApiAtRest ==
    /\ apiCount = 0
    /\ apiRequest = None
    /\ apiResponse = None
    /\ storeOps = {}
    /\ apiBatches = 0

DispatchAtRest ==
    /\ sheetRows = 0
    /\ append = FALSE
    /\ envOk = TRUE
    /\ bqTable = [i \in 0..MaxSheetRows |-> 0]
    /\ kv = [r \in RunIds |-> None]
    /\ runsIndex = <<>>
    /\ cfg = StoredJob
    /\ calls = {}
    /\ active = {}
    /\ client = [pc |-> "idle", batchNumber |-> 1, runId |-> 0]
    /\ response = NoResponse
    /\ nextId = 1
    /\ nextCall = 1
    /\ cronFired = 0
    /\ clientStarts = 0
    /\ startLog = <<>>
    /\ loadLog = <<>>
    /\ statusWritten = {}
    /\ cronRuns = {}
    /\ threw = {}
    /\ terminalDone = {}
    /\ triggerLost = {}
    /\ expired = {}

EngineAtRest ==
    /\ job = [upsertColumns |-> <<"k1">>, incrementalColumn |-> "", incType |-> "DATE"]
    /\ source = {}
    /\ sink = {}
    /\ runNo = 0
    /\ batchNumber = 0
    /\ pc = "Idle"
    /\ runState = None
    /\ page = <<>>
    /\ subIdx = 0
    /\ toDelete = <<>>
    /\ rowsDeleted = 0
    /\ lastError = ""
    /\ logs = {}
    /\ upserted = <<>>
    /\ cursorLog = <<>>
    /\ lastSyncAtStart = Null
    /\ sinkAtStart = {}
    /\ sinkBeforeDelete = Null
    /\ candidatesSeen = Null
    /\ sinkAfterRun = <<>>

DispatchInit ==
    /\ EngineAtRest
    /\ ApiAtRest
    /\ LibAtRest
    /\ sheetRows \in 0..MaxSheetRows
    /\ append \in BOOLEAN
    /\ envOk \in BOOLEAN
    /\ bqTable \in {[i \in 0..MaxSheetRows |-> IF i = 0 THEN old ELSE 0] : old \in {0, 1}}
    /\ kv = [r \in RunIds |-> None]
    /\ runsIndex = <<>>
    /\ cfg = StoredJob
    /\ calls = {}
    /\ active = {}
    /\ client = [pc |-> "idle", batchNumber |-> 1, runId |-> 0]
    /\ response = NoResponse
    /\ nextId = 1
    /\ nextCall = 1
    /\ cronFired = 0
    /\ clientStarts = 0
    /\ startLog = <<>>
    /\ loadLog = <<>>
    /\ statusWritten = {}
    /\ cronRuns = {}
    /\ threw = {}
    /\ terminalDone = {}
    /\ triggerLost = {}
    /\ expired = {}

sheetEnv == <<sheetRows, append, envOk>>

\* scheduled: the enabled job of the firing is read from the configuration store
\* and dispatched, batch 1, no run id and no origin
Scheduled ==
    /\ cronFired < MaxCron
    /\ cronFired' = cronFired + 1
    /\ calls' = calls \cup {[id |-> nextCall, runId |-> 0, batchNumber |-> 1, from |-> "cron",
                             job |-> Some(cfg)]}
    /\ nextCall' = nextCall + 1
    /\ UNCHANGED <<sheetEnv, bqTable, kv, runsIndex, cfg, active, client, response,
                   nextId, clientStarts, startLog, loadLog, statusWritten, cronRuns,
                   threw, terminalDone, triggerLost, expired>>
    /\ UNCHANGED <<engineVars, apiVars, libVars>>

\* syncJob: the dashboard posts batch 1 without a run id
ClientSync ==
    /\ client.pc = "idle"
    /\ clientStarts < MaxClient
    /\ clientStarts' = clientStarts + 1
    /\ client' = [pc |-> "waiting", batchNumber |-> 1, runId |-> 0]
    /\ calls' = calls \cup {[id |-> nextCall, runId |-> 0, batchNumber |-> 1, from |-> "client",
                             job |-> Null]}
    /\ nextCall' = nextCall + 1
    /\ UNCHANGED <<sheetEnv, bqTable, kv, runsIndex, cfg, active, response, nextId,
                   cronFired, startLog, loadLog, statusWritten, cronRuns,
                   threw, terminalDone, triggerLost, expired>>
    /\ UNCHANGED <<engineVars, apiVars, libVars>>

\* the job object a call works on: scheduled read it at the firing, the POST
\* route reads it when the request is handled
JobOf(c) == IF c.job # Null THEN c.job[1] ELSE cfg

\* runJobWithAutoContinuation with a credential missing: the error is written to
\* the job and surfaced, no run is opened
RejectBatch(c) ==
    /\ c \in calls
    /\ ~envOk
    /\ calls' = calls \ {c}
    /\ cfg' = [JobOf(c) EXCEPT !.lastStatus = "error", !.lastError = CredentialMessage]
    /\ response' = IF c.from = "client" THEN ErrorResponse(CredentialMessage) ELSE response
    /\ UNCHANGED <<sheetEnv, bqTable, kv, runsIndex, active, client, nextId, nextCall,
                   cronFired, clientStarts, startLog, loadLog, statusWritten, cronRuns,
                   threw, terminalDone, triggerLost, expired>>
    /\ UNCHANGED <<engineVars, apiVars, libVars>>

\* runJobWithAutoContinuation enters handleSheetsToBigQuerySync: batch 1 opens the
\* run and writes the state, a later batch reads it (and fails when it is
\* missing); the rows of the batch are read from the sheet
BeginBatch(c) ==
    LET currentRunId == IF c.runId = 0 THEN nextId ELSE c.runId
        state == kv[currentRunId]
        startRow == IF c.batchNumber = 1 THEN 2 ELSE state.lastProcessedRow + 1
        endRow == startRow + BATCH_SIZE - 1
        inv == [id |-> c.id, runId |-> currentRunId, batchNumber |-> c.batchNumber,
                from |-> c.from, origin |-> c.from # "cron", job |-> JobOf(c),
                startRow |-> startRow,
                totalRows |-> IF c.batchNumber = 1 THEN 0 ELSE state.totalRows,
                rowCount |-> RowsInRange(startRow, endRow)]
        message == "Sync state not found"
    IN /\ c \in calls
       /\ envOk
       /\ currentRunId \in RunIds
       /\ calls' = calls \ {c}
       /\ nextId' = IF c.runId = 0 THEN nextId + 1 ELSE nextId
       /\ startLog' = Append(startLog, <<currentRunId, c.batchNumber>>)
       /\ cronRuns' = IF c.from = "cron" THEN cronRuns \cup {currentRunId} ELSE cronRuns
       /\ IF c.batchNumber = 1
          THEN /\ runsIndex' = startRun(runsIndex, currentRunId)
               /\ kv' = [kv EXCEPT ![currentRunId] = [lastProcessedRow |-> 1, totalRows |-> 0]]
               /\ active' = active \cup {inv}
               /\ UNCHANGED <<cfg, response, statusWritten, threw>>
          ELSE IF state = None
          THEN /\ runsIndex' = endRun(runsIndex, currentRunId, "error")
               /\ cfg' = [JobOf(c) EXCEPT !.lastStatus = "error", !.lastError = message]
               /\ statusWritten' = statusWritten \cup {currentRunId}
               /\ threw' = threw \cup {currentRunId}
               /\ response' = IF c.from = "client" THEN ErrorResponse(message) ELSE response
               /\ UNCHANGED <<kv, active>>
          ELSE /\ active' = active \cup {inv}
               /\ UNCHANGED <<runsIndex, kv, cfg, response, statusWritten, threw>>
       /\ UNCHANGED <<sheetEnv, bqTable, client, nextCall, cronFired, clientStarts,
                      loadLog, terminalDone, triggerLost, expired>>
       /\ UNCHANGED <<engineVars, apiVars, libVars>>

\* the batch loads its rows, then either writes the state and reports hasMore or
\* closes the run; runJobWithAutoContinuation posts the next batch when it has an
\* origin, writes lastStatus when the run is over, and the result goes back to
\* the caller
FinishBatch(inv) ==
    LET hasMore == HasMore(inv.rowCount)
        nextStartRow == inv.startRow + inv.rowCount
        totalRows == inv.totalRows + inv.rowCount
        rows == Window(inv.startRow, inv.rowCount)
        writeDisposition == WriteDisposition(inv.batchNumber, append)
    IN /\ inv \in active
       /\ active' = active \ {inv}
       /\ IF inv.rowCount > 0
          THEN /\ bqTable' = [i \in 0..MaxSheetRows |->
                                 (IF writeDisposition = "WRITE_APPEND" THEN bqTable[i] ELSE 0)
                                 + (IF i \in rows THEN 1 ELSE 0)]
               /\ loadLog' = Append(loadLog, <<inv.runId, inv.startRow, inv.rowCount,
                                               inv.batchNumber, writeDisposition>>)
          ELSE UNCHANGED <<bqTable, loadLog>>
       /\ IF hasMore
          THEN /\ kv' = [kv EXCEPT ![inv.runId] = [lastProcessedRow |-> nextStartRow - 1,
                                                   totalRows |-> totalRows]]
               /\ UNCHANGED <<runsIndex, terminalDone>>
          ELSE /\ runsIndex' = endRun(runsIndex, inv.runId, "success")
               /\ kv' = [kv EXCEPT ![inv.runId] = None]
               /\ terminalDone' = terminalDone \cup {inv.runId}
       /\ IF hasMore /\ inv.origin
          THEN /\ calls' = calls \cup {[id |-> nextCall, runId |-> inv.runId,
                                        batchNumber |-> inv.batchNumber + 1, from |-> "server",
                                        job |-> Null]}
               /\ nextCall' = nextCall + 1
               /\ UNCHANGED <<cfg, statusWritten>>
          ELSE IF ~hasMore
          THEN /\ cfg' = [inv.job EXCEPT !.lastStatus = "success", !.lastError = "",
                                         !.lastSummary = FormatSummary(totalRows, 0)]
               /\ statusWritten' = statusWritten \cup {inv.runId}
               /\ UNCHANGED <<calls, nextCall>>
          ELSE UNCHANGED <<calls, nextCall, cfg, statusWritten>>
       /\ response' = IF inv.from = "client"
                      THEN [present |-> TRUE, ok |-> TRUE, status |-> 200, error |-> "",
                            runId |-> inv.runId, hasMore |-> hasMore,
                            nextBatch |-> inv.batchNumber + 1]
                      ELSE response
       /\ UNCHANGED <<sheetEnv, client, nextId, cronFired, clientStarts, startLog,
                      cronRuns, threw, triggerLost, expired>>
       /\ UNCHANGED <<engineVars, apiVars, libVars>>

\* a call of the batch throws: the run is closed as error, lastStatus and
\* lastError are written to the job, the caller gets the error
FailBatch(inv) ==
    LET message == "load failed"
    IN /\ inv \in active
       /\ active' = active \ {inv}
       /\ runsIndex' = endRun(runsIndex, inv.runId, "error")
       /\ cfg' = [inv.job EXCEPT !.lastStatus = "error", !.lastError = message]
       /\ statusWritten' = statusWritten \cup {inv.runId}
       /\ threw' = threw \cup {inv.runId}
       /\ response' = IF inv.from = "client" THEN ErrorResponse(message) ELSE response
       /\ UNCHANGED <<sheetEnv, bqTable, kv, calls, client, nextId, nextCall, cronFired,
                      clientStarts, startLog, loadLog, cronRuns, terminalDone, triggerLost,
                      expired>>
       /\ UNCHANGED <<engineVars, apiVars, libVars>>

\* the request for the next batch fails: the rejection is caught and written to
\* the console
TriggerFails(c) ==
    /\ c \in calls
    /\ c.from = "server"
    /\ calls' = calls \ {c}
    /\ triggerLost' = triggerLost \cup {c.runId}
    /\ UNCHANGED <<sheetEnv, bqTable, kv, runsIndex, cfg, active, client, response, nextId,
                   nextCall, cronFired, clientStarts, startLog, loadLog, statusWritten,
                   cronRuns, threw, terminalDone, expired>>
    /\ UNCHANGED <<engineVars, apiVars, libVars>>

\* the expirationTtl of a state key elapses while no batch of its run is under way
ExpireSheetState(r) ==
    /\ kv[r] # None
    /\ \A inv \in active : inv.runId # r
    /\ kv' = [kv EXCEPT ![r] = None]
    /\ expired' = expired \cup {r}
    /\ UNCHANGED <<sheetEnv, bqTable, runsIndex, cfg, calls, active, client, response,
                   nextId, nextCall, cronFired, clientStarts, startLog, loadLog,
                   statusWritten, cronRuns, threw, terminalDone, triggerLost>>
    /\ UNCHANGED <<engineVars, apiVars, libVars>>

\* syncJob's loop: on an error or on hasMore = false it ends; otherwise it posts
\* result.nextBatch with the run id of the result
ClientReceive ==
    /\ client.pc = "waiting"
    /\ response.present
    /\ response' = NoResponse
    /\ IF response.ok /\ response.hasMore
       THEN /\ client' = [pc |-> "waiting", batchNumber |-> response.nextBatch,
                          runId |-> response.runId]
            /\ calls' = calls \cup {[id |-> nextCall, runId |-> response.runId,
                                     batchNumber |-> response.nextBatch, from |-> "client",
                                     job |-> Null]}
            /\ nextCall' = nextCall + 1
       ELSE /\ client' = [pc |-> "idle", batchNumber |-> 1, runId |-> 0]
            /\ UNCHANGED <<calls, nextCall>>
    /\ UNCHANGED <<sheetEnv, bqTable, kv, runsIndex, cfg, active, nextId, cronFired,
                   clientStarts, startLog, loadLog, statusWritten, cronRuns,
                   threw, terminalDone, triggerLost, expired>>
    /\ UNCHANGED <<engineVars, apiVars, libVars>>

DispatchNext ==
    \/ Scheduled
    \/ ClientSync
    \/ \E c \in calls : RejectBatch(c)
    \/ \E c \in calls : BeginBatch(c)
    \/ \E inv \in active : FinishBatch(inv)
    \/ \E inv \in active : FailBatch(inv)
    \/ \E c \in calls : TriggerFails(c)
    \/ \E r \in RunIds : ExpireSheetState(r)
    \/ ClientReceive

DispatchSpec == DispatchInit /\ [][DispatchNext]_vars

(***************************************************************************)
(* The admin surface: the middleware on /api/* and the routes behind it.   *)
(***************************************************************************)
SYNC_API_KEY == "s3cret"

Methods == {"GET", "POST", "PUT", "DELETE"}

Paths == {"/api/auth", "/api/configs", "/api/configs/j1", "/api/diagnostics/sheets",
          "/api/logs/j1", "/api/sync/j1", "/api/scheduled/sheets", "/api/other"}

\* Authorization headers a request may carry, Null when it carries none
Headers == {Null, Some(""), Some("Bearer " \o SYNC_API_KEY), Some("Bearer wrong"),
            Some("bearer " \o SYNC_API_KEY), Some("Bearer  " \o SYNC_API_KEY),
            Some(SYNC_API_KEY), Some("Basic " \o SYNC_API_KEY),
            Some("Bearer " \o SYNC_API_KEY \o "x")}

\* the key of the JSON body of POST /api/auth, Null when the body has none
BodyKeys == {Null, Some(SYNC_API_KEY), Some("wrong"), Some("")}

\* a header that is there passes
Authorized_Present(header) == header # Null /\ header[1] # ""

\* the header is there and is `Bearer ${SYNC_API_KEY}`
Authorized(header) ==
    /\ header # Null
    /\ header[1] # ""
    /\ header[1] = "Bearer " \o SYNC_API_KEY

\* the route handlers on their serving path: status, store accesses, batches started
Handler(method, path, key) ==
    CASE method = "POST" /\ path = "/api/auth" ->
             [status |-> IF key = Some(SYNC_API_KEY) THEN 200 ELSE 401,
              ops |-> {}, batches |-> 0]
      [] method = "GET" /\ path = "/api/configs" ->
             [status |-> 200, ops |-> {<<"config", "read">>}, batches |-> 0]
      [] method = "POST" /\ path = "/api/configs" ->
             [status |-> 200, ops |-> {<<"config", "write">>}, batches |-> 0]
      [] method \in {"PUT", "DELETE"} /\ path = "/api/configs/j1" ->
             [status |-> 200, ops |-> {<<"config", "write">>}, batches |-> 0]
      [] method = "POST" /\ path = "/api/diagnostics/sheets" ->
             [status |-> 200, ops |-> {}, batches |-> 0]
      [] method = "GET" /\ path = "/api/logs/j1" ->
             [status |-> 200, ops |-> {<<"config", "read">>, <<"log", "read">>},
              batches |-> 0]
      [] method = "DELETE" /\ path = "/api/logs/j1" ->
             [status |-> 200, ops |-> {<<"log", "write">>}, batches |-> 0]
      [] \/ method = "POST" /\ path = "/api/sync/j1"
         \/ method = "GET" /\ path = "/api/scheduled/sheets" ->
             [status |-> 200,
              ops |-> {<<"config", "read">>, <<"config", "write">>, <<"log", "write">>,
                       <<"state", "read">>, <<"state", "write">>},
              batches |-> 1]
      [] OTHER ->
             [status |-> IF method = "GET" THEN 200 ELSE 404, ops |-> {}, batches |-> 0]

\* app.use('/api/*'): POST /api/auth goes on, every other request goes on only
\* with the header, and is answered 401 otherwise
Middleware(method, path, header, key) ==
    IF path = "/api/auth" /\ method = "POST"
    THEN Handler(method, path, key)
    ELSE IF ~Authorized(header)
    THEN [status |-> 401, ops |-> {}, batches |-> 0]
    ELSE Handler(method, path, key)

ApiInit == EngineAtRest /\ DispatchAtRest /\ ApiAtRest /\ LibAtRest

\* one request to a path under /api/
ApiRequest ==
    /\ apiCount < MaxApi
    /\ \E method \in Methods, path \in Paths, header \in Headers, key \in BodyKeys :
          LET answer == Middleware(method, path, header, key)
          IN /\ apiRequest' = [method |-> method, path |-> path, header |-> header,
                               key |-> key]
             /\ apiResponse' = answer
             /\ storeOps' = storeOps \cup answer.ops
             /\ apiBatches' = apiBatches + answer.batches
    /\ apiCount' = apiCount + 1
    /\ UNCHANGED <<engineVars, dispatchVars, libVars>>

ApiNext == ApiRequest

ApiSpec == ApiInit /\ [][ApiNext]_vars

sanitizeFrame == <<engineVars, dispatchVars, apiVars, loggerVars, schemaVars, retryVars, tokenVars, queryVars, parseVars, sweepVars, storeVars, windowVars, keysVars, indexVars>>

SanitizeRest ==
    /\ EngineAtRest /\ DispatchAtRest /\ ApiAtRest
    /\ LoggerAtRest
    /\ SchemaAtRest
    /\ RetryAtRest
    /\ TokenAtRest
    /\ QueryAtRest
    /\ ParseAtRest
    /\ SweepAtRest
    /\ StoreAtRest
    /\ WindowAtRest
    /\ KeysAtRest
    /\ IndexAtRest

loggerFrame == <<engineVars, dispatchVars, apiVars, sanitizeVars, schemaVars, retryVars, tokenVars, queryVars, parseVars, sweepVars, storeVars, windowVars, keysVars, indexVars>>

LoggerRest ==
    /\ EngineAtRest /\ DispatchAtRest /\ ApiAtRest
    /\ SanitizeAtRest
    /\ SchemaAtRest
    /\ RetryAtRest
    /\ TokenAtRest
    /\ QueryAtRest
    /\ ParseAtRest
    /\ SweepAtRest
    /\ StoreAtRest
    /\ WindowAtRest
    /\ KeysAtRest
    /\ IndexAtRest

schemaFrame == <<engineVars, dispatchVars, apiVars, sanitizeVars, loggerVars, retryVars, tokenVars, queryVars, parseVars, sweepVars, storeVars, windowVars, keysVars, indexVars>>

SchemaRest ==
    /\ EngineAtRest /\ DispatchAtRest /\ ApiAtRest
    /\ SanitizeAtRest
    /\ LoggerAtRest
    /\ RetryAtRest
    /\ TokenAtRest
    /\ QueryAtRest
    /\ ParseAtRest
    /\ SweepAtRest
    /\ StoreAtRest
    /\ WindowAtRest
    /\ KeysAtRest
    /\ IndexAtRest

retryFrame == <<engineVars, dispatchVars, apiVars, sanitizeVars, loggerVars, schemaVars, tokenVars, queryVars, parseVars, sweepVars, storeVars, windowVars, keysVars, indexVars>>

RetryRest ==
    /\ EngineAtRest /\ DispatchAtRest /\ ApiAtRest
    /\ SanitizeAtRest
    /\ LoggerAtRest
    /\ SchemaAtRest
    /\ TokenAtRest
    /\ QueryAtRest
    /\ ParseAtRest
    /\ SweepAtRest
    /\ StoreAtRest
    /\ WindowAtRest
    /\ KeysAtRest
    /\ IndexAtRest

tokenFrame == <<engineVars, dispatchVars, apiVars, sanitizeVars, loggerVars, schemaVars, retryVars, queryVars, parseVars, sweepVars, storeVars, windowVars, keysVars, indexVars>>

TokenRest ==
    /\ EngineAtRest /\ DispatchAtRest /\ ApiAtRest
    /\ SanitizeAtRest
    /\ LoggerAtRest
    /\ SchemaAtRest
    /\ RetryAtRest
    /\ QueryAtRest
    /\ ParseAtRest
    /\ SweepAtRest
    /\ StoreAtRest
    /\ WindowAtRest
    /\ KeysAtRest
    /\ IndexAtRest

queryFrame == <<engineVars, dispatchVars, apiVars, sanitizeVars, loggerVars, schemaVars, retryVars, tokenVars, parseVars, sweepVars, storeVars, windowVars, keysVars, indexVars>>

QueryRest ==
    /\ EngineAtRest /\ DispatchAtRest /\ ApiAtRest
    /\ SanitizeAtRest
    /\ LoggerAtRest
    /\ SchemaAtRest
    /\ RetryAtRest
    /\ TokenAtRest
    /\ ParseAtRest
    /\ SweepAtRest
    /\ StoreAtRest
    /\ WindowAtRest
    /\ KeysAtRest
    /\ IndexAtRest

parseFrame == <<engineVars, dispatchVars, apiVars, sanitizeVars, loggerVars, schemaVars, retryVars, tokenVars, queryVars, sweepVars, storeVars, windowVars, keysVars, indexVars>>

ParseRest ==
    /\ EngineAtRest /\ DispatchAtRest /\ ApiAtRest
    /\ SanitizeAtRest
    /\ LoggerAtRest
    /\ SchemaAtRest
    /\ RetryAtRest
    /\ TokenAtRest
    /\ QueryAtRest
    /\ SweepAtRest
    /\ StoreAtRest
    /\ WindowAtRest
    /\ KeysAtRest
    /\ IndexAtRest

sweepFrame == <<engineVars, dispatchVars, apiVars, sanitizeVars, loggerVars, schemaVars, retryVars, tokenVars, queryVars, parseVars, storeVars, windowVars, keysVars, indexVars>>

SweepRest ==
    /\ EngineAtRest /\ DispatchAtRest /\ ApiAtRest
    /\ SanitizeAtRest
    /\ LoggerAtRest
    /\ SchemaAtRest
    /\ RetryAtRest
    /\ TokenAtRest
    /\ QueryAtRest
    /\ ParseAtRest
    /\ StoreAtRest
    /\ WindowAtRest
    /\ KeysAtRest
    /\ IndexAtRest

storeFrame == <<engineVars, dispatchVars, apiVars, sanitizeVars, loggerVars, schemaVars, retryVars, tokenVars, queryVars, parseVars, sweepVars, windowVars, keysVars, indexVars>>

StoreRest ==
    /\ EngineAtRest /\ DispatchAtRest /\ ApiAtRest
    /\ SanitizeAtRest
    /\ LoggerAtRest
    /\ SchemaAtRest
    /\ RetryAtRest
    /\ TokenAtRest
    /\ QueryAtRest
    /\ ParseAtRest
    /\ SweepAtRest
    /\ WindowAtRest
    /\ KeysAtRest
    /\ IndexAtRest

windowFrame == <<engineVars, dispatchVars, apiVars, sanitizeVars, loggerVars, schemaVars, retryVars, tokenVars, queryVars, parseVars, sweepVars, storeVars, keysVars, indexVars>>

WindowRest ==
    /\ EngineAtRest /\ DispatchAtRest /\ ApiAtRest
    /\ SanitizeAtRest
    /\ LoggerAtRest
    /\ SchemaAtRest
    /\ RetryAtRest
    /\ TokenAtRest
    /\ QueryAtRest
    /\ ParseAtRest
    /\ SweepAtRest
    /\ StoreAtRest
    /\ KeysAtRest
    /\ IndexAtRest

keysFrame == <<engineVars, dispatchVars, apiVars, sanitizeVars, loggerVars, schemaVars, retryVars, tokenVars, queryVars, parseVars, sweepVars, storeVars, windowVars, indexVars>>

KeysRest ==
    /\ EngineAtRest /\ DispatchAtRest /\ ApiAtRest
    /\ SanitizeAtRest
    /\ LoggerAtRest
    /\ SchemaAtRest
    /\ RetryAtRest
    /\ TokenAtRest
    /\ QueryAtRest
    /\ ParseAtRest
    /\ SweepAtRest
    /\ StoreAtRest
    /\ WindowAtRest
    /\ IndexAtRest

indexFrame == <<engineVars, dispatchVars, apiVars, sanitizeVars, loggerVars, schemaVars, retryVars, tokenVars, queryVars, parseVars, sweepVars, storeVars, windowVars, keysVars>>

IndexRest ==
    /\ EngineAtRest /\ DispatchAtRest /\ ApiAtRest
    /\ SanitizeAtRest
    /\ LoggerAtRest
    /\ SchemaAtRest
    /\ RetryAtRest
    /\ TokenAtRest
    /\ QueryAtRest
    /\ ParseAtRest
    /\ SweepAtRest
    /\ StoreAtRest
    /\ WindowAtRest
    /\ KeysAtRest

(***************************************************************************)
(* The Run Logger: redaction of metadata.  Keys are sequences of           *)
(* characters, so that lower-casing and substring search are computed.     *)
(***************************************************************************)
UpperCase == <<"A", "B", "C", "D", "E", "F", "G", "H", "I", "J", "K", "L", "M",
               "N", "O", "P", "Q", "R", "S", "T", "U", "V", "W", "X", "Y", "Z">>

LowerCase == <<"a", "b", "c", "d", "e", "f", "g", "h", "i", "j", "k", "l", "m",
               "n", "o", "p", "q", "r", "s", "t", "u", "v", "w", "x", "y", "z">>

\* String.prototype.toLowerCase, character by character
toLowerCase(str) ==
    [i \in DOMAIN str |->
        IF \E n \in DOMAIN UpperCase : UpperCase[n] = str[i]
        THEN LowerCase[CHOOSE n \in DOMAIN UpperCase : UpperCase[n] = str[i]]
        ELSE str[i]]

\* String.prototype.includes
includes(str, sub) ==
    \E i \in 0..(Len(str) - Len(sub)) : SubSeq(str, i + 1, i + Len(sub)) = sub

sensitiveKeys == {<<"k", "e", "y">>, <<"t", "o", "k", "e", "n">>,
                  <<"p", "a", "s", "s", "w", "o", "r", "d">>,
                  <<"s", "e", "c", "r", "e", "t">>,
                  <<"c", "r", "e", "d", "e", "n", "t", "i", "a", "l">>,
                  <<"a", "u", "t", "h">>}

\* sensitiveKeys.some(s => k.toLowerCase().includes(s))
IsSensitive(k) == \E s \in sensitiveKeys : includes(toLowerCase(k), s)

MAX_STRING == 1000
TRUNCATED_SUFFIX == 14

\* a string value, by its text and its length; an object value, by its fields
Str(text, len) == [kind |-> "string", text |-> text, len |-> len]
Obj(fields) == [kind |-> "object", fields |-> fields]

REDACTED == Str("***REDACTED***", 14)

\* sanitize: one pass over the entries of the metadata object
sanitize(md) ==
    IF md = Null THEN Null
    ELSE Some([k \in DOMAIN md[1] |->
                  LET v == md[1][k]
                  IN IF IsSensitive(k) THEN REDACTED
                     ELSE IF v.kind = "string" /\ v.len > MAX_STRING
                     THEN Str(v.text, MAX_STRING + TRUNCATED_SUFFIX)
                     ELSE v])

\* keys of the metadata the model draws
K_rows == <<"r", "o", "w", "s">>
K_apiKey == <<"a", "p", "i", "K", "e", "y">>
K_Authorization == <<"A", "u", "t", "h", "o", "r", "i", "z", "a", "t", "i", "o", "n">>
K_source == <<"s", "o", "u", "r", "c", "e">>
K_PASSWORD == <<"P", "A", "S", "S", "W", "O", "R", "D">>
K_id == <<"i", "d">>

MetadataKeys == {K_rows, K_apiKey, K_Authorization, K_source}

NestedKeys == {K_id, K_PASSWORD}

StringValues == {Str("v", 1), Str("long", MAX_STRING + 1)}

ObjectValues == {Obj(f) : f \in UNION {[ks -> {Str("v", 1)}] : ks \in SUBSET NestedKeys}}

\* the metadata objects of a call: none, or an object of strings and of objects
\* of strings
Metadatas ==
    {Null} \cup {Some(f) : f \in UNION {[ks -> StringValues \cup ObjectValues] :
                                          ks \in (SUBSET MetadataKeys) \ {{}}}}

SanitizeInit ==
    /\ SanitizeRest
    /\ metadata \in Metadatas
    /\ entry = Null

\* Logger.log / Logger.errorSync: createEntry(level, phase, message, sanitize(metadata))
LogEntry ==
    /\ entry = Null
    /\ entry' = Some([level |-> "INFO", metadata |-> sanitize(metadata)])
    /\ UNCHANGED metadata
    /\ UNCHANGED sanitizeFrame

SanitizeNext == LogEntry

SanitizeSpec == SanitizeInit /\ [][SanitizeNext]_vars

(***************************************************************************)
(* Properties of the Run Logger.                                           *)
(***************************************************************************)
\* C21: in every log entry, no field of the metadata, at the top or nested in
\* an object of the metadata, whose key contains key, token, password, secret,
\* credential or auth (whatever the case) carries a value other than the
\* redaction placeholder.
C21_Redaction ==
    (entry # Null /\ entry[1].metadata # Null) =>
        LET md == entry[1].metadata[1]
        IN \A k \in DOMAIN md :
              /\ IsSensitive(k) => md[k] = REDACTED
              /\ md[k].kind = "object" =>
                    \A k2 \in DOMAIN md[k].fields :
                        IsSensitive(k2) => md[k].fields[k2] = REDACTED

(***************************************************************************)
(* The Run Logger: the entries of a run in the log store.  A Logger is     *)
(* constructed by every invocation of a batch; startRun, which hands it    *)
(* the store, is called by batch 1 only.                                   *)
(***************************************************************************)
LogRunIds == 1..MaxLogRuns

\* the limit is passed at any count above it
LogLimitReached_Above(count) == count > LOG_LIMIT + 1

\* this.logCount >= 500
LogLimitReached(count) == count >= LOG_LIMIT

\* kv.put(`logs:${jobId}:${runId}:${paddedTs}`, entry): one entry per key
PutLog(store, runId, ts, id) ==
    {e \in store : ~(e.runId = runId /\ e.ts = ts)} \cup {[runId |-> runId, ts |-> ts, id |-> id]}

\* what the ledger keeps of an entry: who made it, when, and what became of its
\* put ("stored", "failed", "none" when the Logger has no store, "limit" past
\* the limit)
Ledger(id, lg, ts, put) ==
    [id |-> id, runId |-> lg.runId, batchNumber |-> lg.batchNumber, ts |-> ts, put |-> put]

\* new Logger(job.id, job.name, runId) at the head of a batch; startRun for batch 1
NewLogger ==
    \E r \in LogRunIds :
        /\ r \notin logEnded
        /\ logBatches[r] < MaxLogBatches
        /\ logBatches' = [logBatches EXCEPT ![r] = @ + 1]
        /\ logger' = [runId |-> r, batchNumber |-> logBatches[r] + 1,
                      kv |-> (logBatches[r] = 0), logCount |-> 0]
        /\ UNCHANGED <<logStore, logClock, consoleLog, overflow, logCalls, logLedger, logEnded>>
        /\ UNCHANGED loggerFrame

\* Logger.log: past the limit the entry goes to the console and to memory;
\* before it, writeLog puts it in the store (the put is not awaited and may
\* fail), or gives up when the Logger has no store; the count goes up either way
Log ==
    /\ logger # None
    /\ logCalls < MaxLogCalls
    /\ logCalls' = logCalls + 1
    /\ LET id == logCalls + 1
       IN IF LogLimitReached(logger.logCount)
          THEN /\ consoleLog' = consoleLog \cup {id}
               /\ overflow' = overflow \cup {id}
               /\ logLedger' = logLedger \cup {Ledger(id, logger, logClock, "limit")}
               /\ UNCHANGED <<logStore, logger>>
          ELSE /\ logger' = [logger EXCEPT !.logCount = @ + 1]
               /\ UNCHANGED overflow
               /\ IF ~logger.kv
                  THEN /\ logLedger' = logLedger \cup {Ledger(id, logger, logClock, "none")}
                       /\ UNCHANGED <<logStore, consoleLog>>
                  ELSE /\ consoleLog' = consoleLog \cup {id}
                       /\ \E putOk \in BOOLEAN :
                             /\ logStore' = IF putOk
                                            THEN PutLog(logStore, logger.runId, logClock, id)
                                            ELSE logStore
                             /\ logLedger' = logLedger \cup
                                   {Ledger(id, logger, logClock,
                                           IF putOk THEN "stored" ELSE "failed")}
    /\ UNCHANGED <<logBatches, logClock, logEnded>>
    /\ UNCHANGED loggerFrame

\* Logger.errorSync: as Logger.log, but a Logger with no store returns at once
ErrorSync ==
    /\ logger # None
    /\ logger.kv
    /\ logCalls < MaxLogCalls
    /\ logCalls' = logCalls + 1
    /\ LET id == logCalls + 1
       IN IF LogLimitReached(logger.logCount)
          THEN /\ consoleLog' = consoleLog \cup {id}
               /\ overflow' = overflow \cup {id}
               /\ logLedger' = logLedger \cup {Ledger(id, logger, logClock, "limit")}
               /\ UNCHANGED <<logStore, logger>>
          ELSE /\ logger' = [logger EXCEPT !.logCount = @ + 1]
               /\ consoleLog' = consoleLog \cup {id}
               /\ UNCHANGED overflow
               /\ \E putOk \in BOOLEAN :
                     /\ logStore' = IF putOk
                                    THEN PutLog(logStore, logger.runId, logClock, id)
                                    ELSE logStore
                     /\ logLedger' = logLedger \cup
                           {Ledger(id, logger, logClock, IF putOk THEN "stored" ELSE "failed")}
    /\ UNCHANGED <<logBatches, logClock, logEnded>>
    /\ UNCHANGED loggerFrame

\* Date.now() moves on by a millisecond
LogTick ==
    /\ logClock < MaxLogClock
    /\ logClock' = logClock + 1
    /\ UNCHANGED <<logger, logBatches, logStore, consoleLog, overflow, logCalls, logLedger,
                   logEnded>>
    /\ UNCHANGED loggerFrame

\* Logger.endRun by the batch that ends the run, with success or with error:
\* the status goes to the run index, no entry is written
EndRunLog ==
    /\ logger # None
    /\ logEnded' = logEnded \cup {logger.runId}
    /\ logger' = None
    /\ UNCHANGED <<logBatches, logStore, logClock, consoleLog, overflow, logCalls, logLedger>>
    /\ UNCHANGED loggerFrame

\* getRecentLogs(kv, jobId, runId): the entries under the keys of the run
getRecentLogs(store, runId) == {e \in store : e.runId = runId}

LoggerInit == LoggerRest /\ LoggerAtRest

LoggerNext == NewLogger \/ Log \/ ErrorSync \/ LogTick \/ EndRunLog

LoggerSpec == LoggerInit /\ [][LoggerNext]_vars

\* the entries the store holds for a run
PersistedOf(r) == {e \in logStore : e.runId = r}

\* C37: after a run of several batches has ended, reading the logs of the run
\* returns the entries logged in every batch; the entries of the batches after
\* the first are persisted like those of batch 1.
C37_LogsOfEveryBatch ==
    \A r \in logEnded :
        \A l \in logLedger :
            (l.runId = r /\ l.put \notin {"failed", "limit"})
                => \E e \in getRecentLogs(logStore, r) : e.ts = l.ts /\ e.id >= l.id

\* the entries of batch 1 logged below the limit whose put did not fail are
\* read back, each itself or the entry of the same millisecond that took its key
C37_FirstBatchOnly ==
    \A r \in logEnded :
        \A l \in logLedger :
            (l.runId = r /\ l.batchNumber = 1 /\ l.put \notin {"failed", "limit"})
                => \E e \in getRecentLogs(logStore, r) : e.ts = l.ts /\ e.id >= l.id

\* C22: the store never holds more entries of one run than the limit, whatever
\* the number of batches and of calls; and an entry logged once the limit is
\* reached is on the console and not in the store.
C22_LogCap ==
    /\ \A r \in LogRunIds : Cardinality(PersistedOf(r)) <= LOG_LIMIT
    /\ \A id \in overflow : id \in consoleLog /\ ~(\E e \in logStore : e.id = id)

\* a run of two batches holds as many entries as the limit allows, and a call
\* past the limit has gone to the console
C22_Witness ==
    /\ \E r \in LogRunIds : logBatches[r] = 2 /\ Cardinality(PersistedOf(r)) = LOG_LIMIT
    /\ overflow # {}

(***************************************************************************)
(* Schema sync of batch 1: CREATE, validation of the upsert columns, drift *)
(* detection, ADD COLUMN and DROP COLUMN, then the data sync.  Column      *)
(* names are sequences of characters.                                      *)
(***************************************************************************)
N_id == <<"i", "d">>
N_ID == <<"I", "D">>
N_name == <<"n", "a", "m", "e">>
N_email == <<"e", "m", "a", "i", "l">>
N_old == <<"o", "l", "d">>
N_synced_at == <<"s", "y", "n", "c", "e", "d", "_", "a", "t">>
N_Synced_At == <<"S", "y", "n", "c", "e", "d", "_", "A", "t">>

SourceNames == {N_id, N_ID, N_name, N_email}

SinkNames == {N_id, N_ID, N_old, N_synced_at, N_Synced_At}

UpsertNames == {N_id, N_ID, N_name, N_old}

RangeOf(seq) == {seq[i] : i \in DOMAIN seq}

\* the sequences over a set of names of at least lo and at most hi names, no
\* name twice
NameSeqs(names, lo, hi) ==
    {q \in UNION {[1..n -> names] : n \in lo..hi} :
        \A i, j \in DOMAIN q : i # j => q[i] # q[j]}

Field(name, type) == [name |-> name, type |-> type]

\* schemas of the source: field names are unique whatever the case
SourceSchemas ==
    {[i \in DOMAIN q |-> Field(q[i], "STRING")] :
        q \in {p \in NameSeqs(SourceNames, 1, MaxFields) :
                  \A i, j \in DOMAIN p : i # j => toLowerCase(p[i]) # toLowerCase(p[j])}}

SinkSchemas == {[i \in DOMAIN q |-> Field(q[i], "TEXT")] : q \in NameSeqs(SinkNames, 0, MaxSinkFields)}

\* drift detection that compares names as they are written
detectSchemaChanges_CaseSensitive(bqFields, supabaseFields) ==
    [columnsToAdd |->
        SelectSeq(bqFields,
                  LAMBDA bq : ~\E i \in DOMAIN supabaseFields :
                                  supabaseFields[i].name = bq.name),
     columnsToDrop |->
        LET kept == SelectSeq(supabaseFields, LAMBDA sb : sb.name # N_synced_at)
            gone == SelectSeq(kept,
                              LAMBDA sb : ~\E i \in DOMAIN bqFields :
                                              bqFields[i].name = sb.name)
        IN [i \in DOMAIN gone |-> gone[i].name]]

\* detectSchemaChanges: columnsToAdd, the source fields no sink field matches;
\* columnsToDrop, the names of the sink fields, synced_at aside, no source field
\* matches
detectSchemaChanges(bqFields, supabaseFields) ==
    [columnsToAdd |->
        SelectSeq(bqFields,
                  LAMBDA bq : ~\E i \in DOMAIN supabaseFields :
                                  toLowerCase(supabaseFields[i].name) = toLowerCase(bq.name)),
     columnsToDrop |->
        LET kept == SelectSeq(supabaseFields,
                              LAMBDA sb : toLowerCase(sb.name) # N_synced_at)
            gone == SelectSeq(kept,
                              LAMBDA sb : ~\E i \in DOMAIN bqFields :
                                              toLowerCase(bqFields[i].name) = toLowerCase(sb.name))
        IN [i \in DOMAIN gone |-> gone[i].name]]

\* validateUpsertColumns: the declared columns no source field matches
validateUpsertColumns(upsertColumns, bqFields) ==
    LET invalidColumns ==
            SelectSeq(upsertColumns,
                      LAMBDA col : ~\E i \in DOMAIN bqFields :
                                       toLowerCase(bqFields[i].name) = toLowerCase(col))
    IN [valid |-> Len(invalidColumns) = 0, invalidColumns |-> invalidColumns]

\* the columns the sink table has once CREATE TABLE IF NOT EXISTS has run
ColumnsAfterCreate(table, bqFields) ==
    IF table = Null
    THEN [i \in 1..(Len(bqFields) + 1) |->
             IF i <= Len(bqFields) THEN Field(bqFields[i].name, "TEXT")
             ELSE Field(N_synced_at, "TIMESTAMPTZ")]
    ELSE table[1]

SchemaInit ==
    /\ SchemaRest
    /\ bqSchema \in SourceSchemas
    /\ upsertKeys \in NameSeqs(UpsertNames, 1, MaxFields)
    /\ sinkTable \in {Null} \cup {Some(t) : t \in SinkSchemas}
    /\ uniqueConstraint \in (IF sinkTable = Null THEN {FALSE} ELSE BOOLEAN)
    /\ schemaPc = "Create"
    /\ schemaError = ""
    /\ statements = <<>>
    /\ validation = Null
    /\ schemaChanges = Null
    /\ upsertsDone = 0

\* executeRawSQL(generateCreateTableSQL(...)): CREATE TABLE IF NOT EXISTS, then,
\* if the constraint <table>_unique_idx is absent, ADD CONSTRAINT UNIQUE over the
\* quoted upsert columns, which the sink refuses when one of them is not a
\* column of the table
CreateTable ==
    /\ schemaPc = "Create"
    /\ statements' = Append(statements, "CREATE TABLE")
    /\ LET columns == ColumnsAfterCreate(sinkTable, bqSchema)
           names == {columns[i].name : i \in DOMAIN columns}
       IN /\ sinkTable' = Some(columns)
          /\ IF uniqueConstraint
             THEN schemaPc' = "Validate" /\ UNCHANGED <<uniqueConstraint, schemaError>>
             ELSE IF RangeOf(upsertKeys) \subseteq names
             THEN /\ uniqueConstraint' = TRUE
                  /\ schemaPc' = "Validate"
                  /\ UNCHANGED schemaError
             ELSE /\ schemaPc' = "Failed"
                  /\ schemaError' = "Supabase DDL Error"
                  /\ UNCHANGED uniqueConstraint
    /\ UNCHANGED <<bqSchema, upsertKeys, validation, schemaChanges, upsertsDone>>
    /\ UNCHANGED schemaFrame

\* validateUpsertColumns, and the throw of buildUpsertValidationError
ValidateUpsert ==
    /\ schemaPc = "Validate"
    /\ LET result == validateUpsertColumns(upsertKeys, bqSchema)
       IN /\ validation' = Some(result)
          /\ IF ~result.valid
             THEN schemaPc' = "Failed" /\ schemaError' = "ConfigInvalid"
             ELSE schemaPc' = "Drift" /\ UNCHANGED schemaError
    /\ UNCHANGED <<bqSchema, upsertKeys, sinkTable, uniqueConstraint, statements,
                   schemaChanges, upsertsDone>>
    /\ UNCHANGED schemaFrame

\* detectSchemaChanges over the two schemas, then the ADD COLUMN statement and
\* the DROP COLUMN statement when there is something to add or to drop
ApplyDrift ==
    /\ schemaPc = "Drift"
    /\ LET changes == detectSchemaChanges(bqSchema, sinkTable[1])
           added == [i \in DOMAIN changes.columnsToAdd |->
                        Field(changes.columnsToAdd[i].name, "TEXT")]
       IN /\ schemaChanges' = Some([source |-> bqSchema, sink |-> sinkTable[1],
                                    changes |-> changes])
          /\ statements' =
                statements
                \o (IF Len(changes.columnsToAdd) > 0 THEN <<"ADD COLUMN">> ELSE <<>>)
                \o (IF Len(changes.columnsToDrop) > 0 THEN <<"DROP COLUMN">> ELSE <<>>)
          /\ sinkTable' =
                Some(SelectSeq(sinkTable[1],
                               LAMBDA f : f.name \notin RangeOf(changes.columnsToDrop))
                     \o added)
    /\ schemaPc' = "Sync"
    /\ UNCHANGED <<bqSchema, upsertKeys, uniqueConstraint, schemaError, validation,
                   upsertsDone>>
    /\ UNCHANGED schemaFrame

\* the data sync that follows: the upserts of the run
SyncData ==
    /\ schemaPc = "Sync"
    /\ upsertsDone' = upsertsDone + 1
    /\ schemaPc' = "Done"
    /\ UNCHANGED <<bqSchema, upsertKeys, sinkTable, uniqueConstraint, schemaError,
                   statements, validation, schemaChanges>>
    /\ UNCHANGED schemaFrame

SchemaNext == CreateTable \/ ValidateUpsert \/ ApplyDrift \/ SyncData

SchemaSpec == SchemaInit /\ [][SchemaNext]_vars

(***************************************************************************)
(* Properties of the schema sync.                                          *)
(***************************************************************************)
\* a name matches some field of a schema, whatever the case
MatchesIn(name, fields) ==
    \E i \in DOMAIN fields : toLowerCase(fields[i].name) = toLowerCase(name)

\* seq holds exactly the members of set, each once, in the order they have in of
InOrderOf(seq, set, of) ==
    /\ RangeOf(seq) = set
    /\ Len(seq) = Cardinality(set)
    /\ \A i, j \in DOMAIN seq :
          i < j => \E a, b \in DOMAIN of : a < b /\ of[a] = seq[i] /\ of[b] = seq[j]

\* C23: the drift computed between a source schema and a sink schema has
\* to_add = the source fields no sink field matches case-insensitively, in
\* source order, and to_drop = the names of the sink fields no source field
\* matches case-insensitively, in sink order, a sink column synced_at excepted.
C23_SchemaDrift ==
    schemaChanges # Null =>
        LET d == schemaChanges[1]
            sinkNames == [i \in DOMAIN d.sink |-> d.sink[i].name]
        IN /\ InOrderOf(d.changes.columnsToAdd,
                        {f \in RangeOf(d.source) : ~MatchesIn(f.name, d.sink)},
                        d.source)
           /\ InOrderOf(d.changes.columnsToDrop,
                        {n \in RangeOf(sinkNames) :
                            ~MatchesIn(n, d.source) /\ toLowerCase(n) # N_synced_at},
                        sinkNames)

\* a drift with a source field matched by a sink field of another case, a sink
\* column to drop and a sink column synced_at
C23_Witness ==
    /\ schemaChanges # Null
    /\ \E f \in RangeOf(schemaChanges[1].source), g \in RangeOf(schemaChanges[1].sink) :
          f.name # g.name /\ toLowerCase(f.name) = toLowerCase(g.name)
    /\ \E g \in RangeOf(schemaChanges[1].sink) : g.name = N_synced_at
    /\ Len(schemaChanges[1].changes.columnsToDrop) > 0

\* C24: the validation is ok exactly when every declared upsert column matches
\* a source field case-insensitively, and lists the others in declared order;
\* when it is not ok, batch 1 fails with ConfigInvalid, and the run executes no
\* ADD COLUMN, no DROP COLUMN and no upsert.
C24_UpsertKeyValidation ==
    /\ validation # Null =>
          /\ validation[1].valid = (\A c \in RangeOf(upsertKeys) : MatchesIn(c, bqSchema))
          /\ InOrderOf(validation[1].invalidColumns,
                       {c \in RangeOf(upsertKeys) : ~MatchesIn(c, bqSchema)},
                       upsertKeys)
    /\ (\E c \in RangeOf(upsertKeys) : ~MatchesIn(c, bqSchema)) =>
          /\ schemaPc \notin {"Drift", "Sync", "Done"}
          /\ schemaPc = "Failed" => schemaError = "ConfigInvalid"
          /\ \A i \in DOMAIN statements : statements[i] \notin {"ADD COLUMN", "DROP COLUMN"}
          /\ upsertsDone = 0

(***************************************************************************)
(* The spreadsheet client: one read, with its retries.                     *)
(***************************************************************************)
RETRIES == 3
BACKOFF_MS == 1000
JITTER_MS == 1000

\* statuses a response may carry
Statuses == {200, 204, 400, 403, 404, 429, 499, 500, 503, 599, 600}

\* values of Math.random() * 1000
Jitters == {0, 500, 999}

\* every status from 400 on is retried
Retryable_From400(status) == status >= 400

\* response.status === 429 || (response.status >= 500 && response.status < 600)
Retryable(status) == status = 429 \/ (status >= 500 /\ status < 600)

\* Math.pow(2, i) * 1000 + Math.random() * 1000
Delay(i, jitter) == (2 ^ i) * BACKOFF_MS + jitter

\* getSheetRange called: the token is there, the first request is about to go
StartRead ==
    /\ readPc = "Idle"
    /\ readPc' = "Fetching"
    /\ UNCHANGED <<responses, delays>>
    /\ UNCHANGED retryFrame

\* one turn of the loop of fetchWithRetry: a request, then either the wait
\* before the next turn or the return of the response to getSheetRange, which
\* throws unless the response is ok; the loop left after the last turn throws
Attempt ==
    /\ readPc = "Fetching"
    /\ \E status \in Statuses :
          /\ responses' = Append(responses, status)
          /\ IF Retryable(status)
             THEN /\ \E jitter \in Jitters :
                        delays' = Append(delays, Delay(Len(responses), jitter))
                  /\ readPc' = IF Len(responses) + 1 < RETRIES THEN "Fetching" ELSE "Failed"
             ELSE /\ UNCHANGED delays
                  /\ readPc' = IF status >= 200 /\ status <= 299 THEN "Returned" ELSE "Failed"
    /\ UNCHANGED retryFrame

\* fetch rejects: the error leaves fetchWithRetry and getSheetRange at once
FetchThrows ==
    /\ readPc = "Fetching"
    /\ readPc' = "Failed"
    /\ UNCHANGED <<responses, delays>>
    /\ UNCHANGED retryFrame

RetryInit == RetryRest /\ RetryAtRest

RetryNext == StartRead \/ Attempt \/ FetchThrows

RetrySpec == RetryInit /\ [][RetryNext]_vars

(***************************************************************************)
(* Properties of the spreadsheet client.                                   *)
(***************************************************************************)
\* C25: a read makes at most three attempts; every attempt but the last one
\* made was answered 429 or 5xx and was followed by a wait of 1 s, 2 s, 4 s
\* plus a jitter below 1 s; a response with another status ends the read with
\* that attempt; three retryable responses in a row end the read in failure.
C25_ReadRetry ==
    LET retried(s) == s = 429 \/ s \in 500..599
        n == Len(responses)
    IN /\ n <= 3
       /\ \A i \in 1..(n - 1) : retried(responses[i])
       /\ \A i \in DOMAIN delays :
             /\ retried(responses[i])
             /\ delays[i] >= (2 ^ (i - 1)) * 1000
             /\ delays[i] < (2 ^ (i - 1)) * 1000 + 1000
       /\ \A i \in 1..(n - 1) : i \in DOMAIN delays
       /\ (n >= 1 /\ ~retried(responses[n])) => readPc \in {"Returned", "Failed"}
       /\ readPc = "Returned" => (n >= 1 /\ responses[n] \in 200..299)
       /\ (n = 3 /\ \A i \in 1..3 : retried(responses[i])) => readPc = "Failed"
       /\ readPc = "Fetching" => n < 3

\* a read has failed on a 429 and two 5xx responses in a row
C25_Witness ==
    /\ readPc = "Failed"
    /\ Len(responses) = 3
    /\ responses[1] = 429
    /\ responses[2] = 503
    /\ responses[3] = 599
    /\ Len(delays) = 3

(***************************************************************************)
(* The access-token caches of the warehouse client and of the spreadsheet  *)
(* client.  Time is in seconds.                                            *)
(***************************************************************************)
TOKEN_BUFFER == 60
SHEETS_EXPIRES_IN == 3600

Scopes == {"bigquery", "spreadsheets.readonly"}

\* expires_in of the token endpoint's answers
ExpiresIn == {30, 60, 120, 3600}

\* the steps the clock makes between calls
Jumps == {1, 59, 60, 3479, 3480, 3539, 3540, 3600}

\* seconds between the start of a token request and the issue of the token
Latencies == {0, 1}

\* the expiry kept with no buffer
TokenExpiry_NoBuffer(now, expiresIn) == now + expiresIn

\* this.tokenExpiry = now + expires_in - 60
TokenExpiry(now, expiresIn) == now + expiresIn - TOKEN_BUFFER

\* this.accessToken && now < this.tokenExpiry
CacheHit(cache, now) == cache.accessToken # Null /\ now < cache.tokenExpiry

\* getAccessToken / getSheetsAccessToken of the client of a scope: the cached
\* token, or a new one, which the warehouse client keeps for the expires_in of
\* the answer and the spreadsheet client for 3600 s
GetToken(scope) ==
    /\ tokenCalls < MaxTokenCalls
    /\ tokenCalls' = tokenCalls + 1
    /\ LET now == tokenClock
           cache == tokenCache[scope]
       IN IF CacheHit(cache, now)
          THEN /\ handouts' = handouts \cup {[scope |-> scope, token |-> cache.accessToken[1],
                                              at |-> now, cached |-> TRUE]}
               /\ UNCHANGED <<tokenCache, tokenClock>>
          ELSE \E lat \in Latencies,
                  expiresIn \in (IF scope = "bigquery" THEN ExpiresIn ELSE {SHEETS_EXPIRES_IN}) :
                  LET token == [scope |-> scope, issuedAt |-> now + lat, expiresIn |-> expiresIn]
                  IN /\ tokenClock' = now + lat
                     /\ tokenCache' = [tokenCache EXCEPT ![scope] =
                                          [accessToken |-> Some(token),
                                           tokenExpiry |-> TokenExpiry(now, expiresIn)]]
                     /\ handouts' = handouts \cup {[scope |-> scope, token |-> token,
                                                    at |-> now + lat, cached |-> FALSE]}
    /\ UNCHANGED tokenTicks
    /\ UNCHANGED tokenFrame

\* time passes between two calls
TokenTick ==
    /\ tokenTicks < MaxTokenTicks
    /\ tokenTicks' = tokenTicks + 1
    /\ \E d \in Jumps : tokenClock' = tokenClock + d
    /\ UNCHANGED <<tokenCache, handouts, tokenCalls>>
    /\ UNCHANGED tokenFrame

TokenInit == TokenRest /\ TokenAtRest

TokenNext == (\E scope \in Scopes : GetToken(scope)) \/ TokenTick

TokenSpec == TokenInit /\ [][TokenNext]_vars

EmptyToken == 0

\* the rows field of an answer: absent, or up to MaxPageRows rows; row n of page
\* p is the pair <<p, n>>
PageRowsOf(p, n) == IF n = 0 THEN Null ELSE Some([i \in 1..(n - 1) |-> <<p, i>>])

\* the answers the job has for its pages: rows (n = 0 for an answer with no rows
\* field, n - 1 rows otherwise), an error or none, and for the last page whether
\* it carries no token or an empty one
Answers ==
    [n : 0..(MaxPageRows + 1), error : BOOLEAN, lastToken : {"none", "empty"}]

\* the token of the answer for page p: that of page p + 1, and on the last page
\* none or the empty one
TokenOf(pages, p) ==
    IF p < Len(pages) THEN Some(p + 1)
    ELSE IF pages[p].lastToken = "empty" THEN Some(EmptyToken) ELSE Null

\* parseRows: no rows when the answer has no rows field
parseRows(rows) == IF rows = Null THEN <<>> ELSE rows[1]

\* a token that is there, empty or not
HasNextPage_NotNull(token) == token # Null

\* pageToken && pageToken !== ''
HasNextPage(token) == token # Null /\ token[1] # EmptyToken

QueryInit ==
    /\ QueryRest
    /\ qPages \in UNION {[1..n -> Answers] : n \in 1..MaxPages}
    /\ jobComplete \in BOOLEAN
    /\ qPc = "Query"
    /\ qError = ""
    /\ allRows = <<>>
    /\ pageToken = Null
    /\ followUps = 0
    /\ qResult = Null

\* the POST of the query and the checks on its answer
InitialQuery ==
    /\ qPc = "Query"
    /\ IF qPages[1].error
       THEN /\ qPc' = "Failed"
            /\ qError' = "BigQuery Error"
            /\ UNCHANGED <<allRows, pageToken, qResult>>
       ELSE IF ~jobComplete
       THEN /\ qPc' = "Failed"
            /\ qError' = "Query did not complete"
            /\ UNCHANGED <<allRows, pageToken, qResult>>
       ELSE LET rows == parseRows(PageRowsOf(1, qPages[1].n))
                token == TokenOf(qPages, 1)
            IN /\ allRows' = rows
               /\ pageToken' = token
               /\ UNCHANGED qError
               /\ IF HasNextPage(token)
                  THEN qPc' = "Paging" /\ UNCHANGED qResult
                  ELSE qPc' = "Returned" /\ qResult' = Some(rows)
    /\ UNCHANGED <<qPages, jobComplete, followUps>>
    /\ UNCHANGED queryFrame

\* one turn of the while loop: the GET of the page of the token; the job has
\* no page for a token it did not give and answers with an error
FollowUp ==
    /\ qPc = "Paging"
    /\ followUps' = followUps + 1
    /\ LET p == pageToken[1]
           known == p \in DOMAIN qPages
       IN IF ~known \/ qPages[p].error
          THEN /\ qPc' = "Failed"
               /\ qError' = "BigQuery Pagination Error"
               /\ UNCHANGED <<allRows, pageToken, qResult>>
          ELSE LET rows == allRows \o parseRows(PageRowsOf(p, qPages[p].n))
                   token == TokenOf(qPages, p)
               IN /\ allRows' = rows
                  /\ pageToken' = token
                  /\ UNCHANGED qError
                  /\ IF HasNextPage(token)
                     THEN qPc' = "Paging" /\ UNCHANGED qResult
                     ELSE qPc' = "Returned" /\ qResult' = Some(rows)
    /\ UNCHANGED <<qPages, jobComplete>>
    /\ UNCHANGED queryFrame

QueryNext == InitialQuery \/ FollowUp

QuerySpec == QueryInit /\ [][QueryNext]_vars

(***************************************************************************)
(* Properties of the warehouse client's paginated query.                   *)
(***************************************************************************)
RECURSIVE RowsUpTo(_, _)
\* the rows of pages 1..p, page after page
RowsUpTo(pages, p) ==
    IF p = 0 THEN <<>>
    ELSE RowsUpTo(pages, p - 1) \o [i \in 1..(IF pages[p].n = 0 THEN 0 ELSE pages[p].n - 1) |-> <<p, i>>]

\* C27: the query returns the rows of all pages in page order, after one
\* follow-up request per page token received; it fails with QueryRejected when
\* the first answer carries an error, with QueryIncomplete when the job is not
\* complete in the first answer, with PaginationFailed when a follow-up page
\* carries an error, and then returns no rows at all.
C27_QueryPaginated ==
    LET n == Len(qPages)
        firstBad == IF \E p \in 2..n : qPages[p].error
                    THEN CHOOSE p \in 2..n : qPages[p].error /\ \A q \in 2..(p - 1) : ~qPages[q].error
                    ELSE 0
    IN /\ qPc = "Returned" =>
             /\ qResult = Some(RowsUpTo(qPages, n))
             /\ followUps = n - 1
             /\ \A p \in 1..n : ~qPages[p].error
             /\ jobComplete
       /\ qPc = "Failed" =>
             /\ qResult = Null
             /\ qError = (IF qPages[1].error THEN "BigQuery Error"
                          ELSE IF ~jobComplete THEN "Query did not complete"
                          ELSE "BigQuery Pagination Error")
             /\ (qError = "BigQuery Pagination Error") => (firstBad # 0 /\ followUps = firstBad - 1)
       /\ (qPc \in {"Returned", "Failed"}) =>
             (qPc = "Failed") = (qPages[1].error \/ ~jobComplete \/ firstBad # 0)

\* a query over three pages with rows has returned, the last page with an empty
\* token
C27_Witness ==
    /\ qPc = "Returned"
    /\ Len(qPages) = 3
    /\ followUps = 2
    /\ qPages[3].lastToken = "empty"
    /\ \A p \in 1..3 : qPages[p].n >= 2
    /\ Len(qResult[1]) >= 3

(***************************************************************************)
(* The warehouse client: parseRows.  Values travel as decimal strings      *)
(* (sequences of characters); a native number is a float whose significand *)
(* has MantissaBits bits, 53 in the program.                               *)
(***************************************************************************)
MAX_SAFE_INTEGER == 2 ^ MantissaBits - 1
MIN_SAFE_INTEGER == -MAX_SAFE_INTEGER

Digits == <<"0", "1", "2", "3", "4", "5", "6", "7", "8", "9">>

RECURSIVE DigitsOf(_)
\* the decimal digits of a natural number
DigitsOf(n) ==
    IF n < 10 THEN <<Digits[n + 1]>>
    ELSE DigitsOf(n \div 10) \o <<Digits[(n % 10) + 1]>>

\* the decimal string the warehouse sends for an integer
ToDecimalString(n) == IF n < 0 THEN <<"-">> \o DigitsOf(-n) ELSE DigitsOf(n)

DigitValue(c) == (CHOOSE d \in DOMAIN Digits : Digits[d] = c) - 1

RECURSIVE NaturalOf(_)
NaturalOf(str) ==
    IF Len(str) = 0 THEN 0
    ELSE 10 * NaturalOf(SubSeq(str, 1, Len(str) - 1)) + DigitValue(str[Len(str)])

\* BigInt(val): the integer a decimal string denotes
BigInt(str) == IF str[1] = "-" THEN -NaturalOf(Tail(str)) ELSE NaturalOf(str)

RECURSIVE Ulp(_)
\* the gap between neighbouring floats at a magnitude
Ulp(a) == IF a < 2 ^ MantissaBits THEN 1 ELSE 2 * Ulp(a \div 2)

\* the float nearest to a natural number, ties to the even significand
RoundNatural(a) ==
    LET u == Ulp(a)
        q == a \div u
        r == a % u
    IN IF 2 * r < u THEN q * u
       ELSE IF 2 * r > u THEN (q + 1) * u
       ELSE (IF q % 2 = 0 THEN q ELSE q + 1) * u

\* the native number an integer becomes
ToNumber(n) == IF n < 0 THEN -RoundNatural(-n) ELSE RoundNatural(n)

\* parseInt(val, 10) and parseFloat(val) of a decimal string of an integer
parseInt(str) == ToNumber(BigInt(str))

\* a range with no lower end
IsSafe_NoLowerEnd(numVal) == ~(numVal > MAX_SAFE_INTEGER)

\* not (numVal > Number.MAX_SAFE_INTEGER || numVal < Number.MIN_SAFE_INTEGER)
IsSafe(numVal) == ~(numVal > MAX_SAFE_INTEGER \/ numVal < MIN_SAFE_INTEGER)

AsString(str) == [kind |-> "string", s |-> str]
AsNumber(v) == [kind |-> "number", v |-> v]
AsNull == [kind |-> "null"]

\* the value parseRows gives a field of a row
ParseValue(field, val, forceSet) ==
    IF val = Null THEN AsNull
    ELSE IF field.name \in forceSet THEN AsString(val[1])
    ELSE IF field.type \in {"INTEGER", "INT64"}
    THEN IF IsSafe(BigInt(val[1])) THEN AsNumber(parseInt(val[1])) ELSE AsString(val[1])
    ELSE IF field.type \in {"FLOAT", "FLOAT64"} THEN AsNumber(parseInt(val[1]))
    ELSE AsString(val[1])

FieldNames == <<"id", "n">>

FieldTypes == {"INTEGER", "INT64", "FLOAT", "STRING"}

\* the integers of the rows: around zero and around both ends of the safe range
IntegerValues ==
    {0, 7, -7,
     MAX_SAFE_INTEGER - 1, MAX_SAFE_INTEGER, MAX_SAFE_INTEGER + 1, MAX_SAFE_INTEGER + 2,
     MIN_SAFE_INTEGER + 1, MIN_SAFE_INTEGER, MIN_SAFE_INTEGER - 1, MIN_SAFE_INTEGER - 2,
     2 * MAX_SAFE_INTEGER + 5, 2 * MIN_SAFE_INTEGER - 5}

ParseInit ==
    /\ ParseRest
    /\ parseSchema \in [DOMAIN FieldNames -> FieldTypes]
    /\ forceStringFields \in SUBSET RangeOf(FieldNames)
    /\ rawInts \in [DOMAIN FieldNames -> {Null} \cup {Some(n) : n \in IntegerValues}]
    /\ rawRow = [i \in DOMAIN FieldNames |->
                    IF rawInts[i] = Null THEN Null ELSE Some(ToDecimalString(rawInts[i][1]))]
    /\ parsedRow = Null

\* parseRows over the row: one object, a value per field of the schema
ParseRow ==
    /\ parsedRow = Null
    /\ parsedRow' =
          Some([i \in DOMAIN FieldNames |->
                   ParseValue([name |-> FieldNames[i], type |-> parseSchema[i]],
                              rawRow[i], forceStringFields)])
    /\ UNCHANGED <<parseSchema, forceStringFields, rawInts, rawRow>>
    /\ UNCHANGED parseFrame

ParseNext == ParseRow

ParseSpec == ParseInit /\ [][ParseNext]_vars

(***************************************************************************)
(* Properties of parseRows.                                                *)
(***************************************************************************)
\* C28: for a non-null value of an INTEGER or INT64 column the parsed row holds
\* the decimal string the warehouse sent when the column is in the force-string
\* set or the value is outside the safe-integer range, and otherwise the native
\* number equal to the value; a null stays null; no integer is changed.
C28_IntegerCarriers ==
    parsedRow # Null =>
        \A i \in DOMAIN FieldNames :
            parseSchema[i] \in {"INTEGER", "INT64"} =>
                IF rawInts[i] = Null THEN parsedRow[1][i] = AsNull
                ELSE LET n == rawInts[i][1]
                     IN IF FieldNames[i] \in forceStringFields
                           \/ n > 2 ^ MantissaBits - 1 \/ n < -(2 ^ MantissaBits - 1)
                        THEN /\ parsedRow[1][i] = AsString(ToDecimalString(n))
                             /\ BigInt(parsedRow[1][i].s) = n
                        ELSE parsedRow[1][i] = AsNumber(n)

\* a row with an integer just past the lower end of the safe range, kept as a
\* string, and one at the upper end, made a number
C28_Witness ==
    /\ parsedRow # Null
    /\ forceStringFields = {}
    /\ parseSchema[1] = "INTEGER" /\ parseSchema[2] = "INT64"
    /\ rawInts[1] = Some(MIN_SAFE_INTEGER - 1) /\ parsedRow[1][1].kind = "string"
    /\ rawInts[2] = Some(MAX_SAFE_INTEGER) /\ parsedRow[1][2].kind = "number"

(***************************************************************************)
(* Dispatch over the stored jobs: the scheduled handler, POST /api/sync/all *)
(* and POST /api/sync/:id.  A cron expression is a sequence of pieces, a   *)
(* piece " " being white space around the expression.                      *)
(***************************************************************************)
Every6h == <<"0 */6 * * *">>
HalfPast6h == <<"30 */6 * * *">>
Hourly == <<"0 * * * *">>
EmptyCron == <<>>

\* the expressions the platform fires the handler with, the empty one for a
\* firing that carries none
EventCrons == {Every6h, HalfPast6h, Hourly, EmptyCron}

\* the cronSchedule of a stored job, Null when the job has none
CronSchedules == {Null, Some(Every6h), Some(Hourly), Some(<<" ">> \o Every6h \o <<" ">>)}

JobTypes == {"bq-to-supabase", "sheets-to-bq"}

JobIdOf(k) == k

\* the jobs of the configuration store, in the order list() gives their keys
StoredJobs ==
    {[k \in 1..MaxJobs |-> [id |-> JobIdOf(k), enabled |-> en[k], cronSchedule |-> cs[k],
                            type |-> ty[k]]] :
        en \in [1..MaxJobs -> BOOLEAN], cs \in [1..MaxJobs -> CronSchedules],
        ty \in [1..MaxJobs -> JobTypes]}

RECURSIVE trimStart(_)
trimStart(str) == IF str # <<>> /\ Head(str) = " " THEN trimStart(Tail(str)) ELSE str

RECURSIVE trimEnd(_)
trimEnd(str) ==
    IF str # <<>> /\ str[Len(str)] = " " THEN trimEnd(SubSeq(str, 1, Len(str) - 1)) ELSE str

trim(str) == trimEnd(trimStart(str))

matchesCron(cronExpression, eventCron) ==
    IF cronExpression = EmptyCron \/ eventCron = EmptyCron THEN FALSE
    ELSE trim(cronExpression) = trim(eventCron)

filterJobsByCron(jobs, eventCron) ==
    SelectSeq(jobs, LAMBDA jb :
        IF ~jb.enabled THEN FALSE
        ELSE LET jobCron == IF jb.cronSchedule = Null \/ jb.cronSchedule[1] = EmptyCron
                            THEN Every6h ELSE jb.cronSchedule[1]
             IN matchesCron(jobCron, eventCron))

\* the test of the scheduled handler on an enabled job
ScheduledStarts(cron, jb) ==
    LET isSheetsJob == jb.type = "sheets-to-bq"
    IN \/ cron = HalfPast6h /\ isSheetsJob
       \/ cron = Every6h /\ ~isSheetsJob
       \/ cron = EmptyCron

IdleSweep == [kind |-> "idle", no |-> 0, cron |-> EmptyCron, k |-> 1, awaiting |-> FALSE]

\* the handler of the sweep has gone through every key
SweepOver == sweep.kind # "idle" /\ sweep.k > MaxJobs

SweepInit ==
    /\ SweepRest
    /\ storedJobs \in StoredJobs
    /\ sweep = IdleSweep
    /\ executing = {}
    /\ started = {}
    /\ settled = {}
    /\ results = <<>>
    /\ manualCount = 0

\* the platform fires the scheduled handler
CronFiring ==
    /\ sweep.kind = "idle" \/ SweepOver
    /\ sweep.no < MaxSweeps
    /\ \E cron \in EventCrons :
          sweep' = [kind |-> "cron", no |-> sweep.no + 1, cron |-> cron, k |-> 1,
                    awaiting |-> FALSE]
    /\ results' = <<>>
    /\ UNCHANGED <<storedJobs, executing, started, settled, manualCount>>
    /\ UNCHANGED sweepFrame

\* scheduled, one turn of the loop: the job is read and, when it is enabled and
\* passes the test, handed to waitUntil; the loop goes on without waiting for it
ScheduledVisit ==
    /\ sweep.kind = "cron"
    /\ sweep.k <= MaxJobs
    /\ LET jb == storedJobs[sweep.k]
       IN IF jb.enabled /\ ScheduledStarts(sweep.cron, jb)
          THEN /\ executing' = executing \cup {[id |-> jb.id, no |-> sweep.no, batch |-> 1,
                                                 origin |-> FALSE]}
               /\ started' = started \cup {<<sweep.no, jb.id>>}
          ELSE UNCHANGED <<executing, started>>
    /\ sweep' = [sweep EXCEPT !.k = @ + 1]
    /\ UNCHANGED <<storedJobs, settled, results, manualCount>>
    /\ UNCHANGED sweepFrame

\* POST /api/sync/all is received
RunAllRequest ==
    /\ sweep.kind = "idle" \/ SweepOver
    /\ sweep.no < MaxSweeps
    /\ sweep' = [kind |-> "all", no |-> sweep.no + 1, cron |-> EmptyCron, k |-> 1,
                 awaiting |-> FALSE]
    /\ results' = <<>>
    /\ UNCHANGED <<storedJobs, executing, started, settled, manualCount>>
    /\ UNCHANGED sweepFrame

\* POST /api/sync/all, one turn of the loop: an enabled job is started with the
\* origin and awaited, a disabled one is passed over
RunAllVisit ==
    /\ sweep.kind = "all"
    /\ sweep.k <= MaxJobs
    /\ ~sweep.awaiting
    /\ LET jb == storedJobs[sweep.k]
       IN IF jb.enabled
          THEN /\ executing' = executing \cup {[id |-> jb.id, no |-> sweep.no, batch |-> 1,
                                                 origin |-> TRUE]}
               /\ started' = started \cup {<<sweep.no, jb.id>>}
               /\ sweep' = [sweep EXCEPT !.awaiting = TRUE]
          ELSE /\ sweep' = [sweep EXCEPT !.k = @ + 1]
               /\ UNCHANGED <<executing, started>>
    /\ UNCHANGED <<storedJobs, settled, results, manualCount>>
    /\ UNCHANGED sweepFrame

\* POST /api/sync/:id from the dashboard: the job is read and run, batch 1, with
\* the origin; the enabled flag is not looked at
ManualSync ==
    /\ manualCount < MaxManual
    /\ manualCount' = manualCount + 1
    /\ \E k \in 1..MaxJobs :
          LET jb == storedJobs[k]
          IN /\ executing' = executing \cup {[id |-> jb.id, no |-> -manualCount', batch |-> 1,
                                               origin |-> TRUE]}
             /\ started' = started \cup {<<-manualCount', jb.id>>}
    /\ UNCHANGED <<storedJobs, sweep, settled, results>>
    /\ UNCHANGED sweepFrame

\* runJobWithAutoContinuation settles for a batch: it throws, returns the last
\* batch, or returns a batch with more to do; with more to do and an origin the
\* next batch is posted to /api/sync/:id, and the loop of POST /api/sync/all
\* that awaited batch 1 goes on to the next key
BatchSettles ==
    \E x \in executing :
    \E outcome \in {"success", "error"} \cup (IF x.batch < MaxSweepBatches THEN {"more"} ELSE {}) :
        /\ executing' = (executing \ {x}) \cup
                            (IF outcome = "more" /\ x.origin
                             THEN {[x EXCEPT !.batch = @ + 1]} ELSE {})
        /\ settled' = IF outcome = "more" /\ x.origin THEN settled
                      ELSE settled \cup {<<x.no, x.id, outcome>>}
        /\ IF sweep.kind = "all" /\ sweep.awaiting /\ x.no = sweep.no /\ x.batch = 1
           THEN /\ results' = Append(results,
                                     [id |-> x.id,
                                      status |-> IF outcome = "error" THEN "error" ELSE "success"])
                /\ sweep' = [sweep EXCEPT !.k = @ + 1, !.awaiting = FALSE]
           ELSE UNCHANGED <<results, sweep>>
        /\ UNCHANGED <<storedJobs, started, manualCount>>
        /\ UNCHANGED sweepFrame

SweepNext ==
    \/ CronFiring
    \/ ScheduledVisit
    \/ RunAllRequest
    \/ RunAllVisit
    \/ ManualSync
    \/ BatchSettles

SweepSpec == SweepInit /\ [][SweepNext]_vars

(***************************************************************************)
(* Properties of the dispatch over the stored jobs.                        *)
(***************************************************************************)
StartedIn(no) == {id \in 1..MaxJobs : <<no, id>> \in started}

IdsOf(jobs) == {jobs[i].id : i \in DOMAIN jobs}

\* C29: when the scheduled handler has gone through the jobs of a firing with
\* expression e, the jobs it started at batch 1 are exactly the enabled jobs
\* whose cronSchedule equals e after trimming; a disabled job is never started
\* by it; a manual POST /api/sync/{id} starts the job whatever its enabled flag.
C29_ScheduledSelection ==
    /\ (sweep.kind = "cron" /\ SweepOver)
          => StartedIn(sweep.no) = IdsOf(filterJobsByCron(storedJobs, sweep.cron))
    /\ sweep.kind = "cron"
          => \A id \in StartedIn(sweep.no) : storedJobs[id].enabled
    /\ \A m \in 1..manualCount : StartedIn(-m) # {}

\* C30: of the jobs of one sweep, by cron firing or by run-all, at most one is
\* executing at any time; and once the sweep has gone through the jobs, every
\* job it had to run was started, whatever became of the ones before it.
C30_SequentialDispatch ==
    /\ \A no \in 1..MaxSweeps : Cardinality({x \in executing : x.no = no}) <= 1
    /\ SweepOver =>
          \A k \in 1..MaxJobs :
              LET jb == storedJobs[k]
              IN (/\ jb.enabled
                  /\ sweep.kind = "cron" => ScheduledStarts(sweep.cron, jb))
                     => <<sweep.no, jb.id>> \in started

(***************************************************************************)
(* The configuration store: POST /api/configs, PUT and DELETE              *)
(* /api/configs/:id, and the status write of a run started by              *)
(* POST /api/sync/:id.  A spreadsheet URL is a sequence of pieces: the      *)
(* piece "/spreadsheets/d/" and single characters.                         *)
(***************************************************************************)
SegmentMarker == "/spreadsheets/d/"

\* the characters of [a-zA-Z0-9-_]
IdChars == {"a", "1", "-", "_"}

SHEETS_WHITELIST == <<>>

\* the spreadsheetUrl of a request body, Null when the body has none
SpreadsheetUrls ==
    {Null, Some(<<>>), Some(<<"h", "/">>), Some(<<"h", SegmentMarker, "$">>),
     Some(<<"h", SegmentMarker, "a", "1", "/", "e">>),
     Some(<<"h", SegmentMarker, "$", SegmentMarker, "-", "_", "$", "a">>)}

SheetNames == {Null, Some("Invalid Name")}

SheetRanges == {Null, Some("A1:B2")}

PathIds == {"j1", "j2"}

BodyIds == {Null} \cup {Some(id) : id \in PathIds}

JobNames == {"v1", "v2"}

\* the JSON bodies of POST /api/configs and PUT /api/configs/:id
ConfigBodies ==
    {[id |-> id, type |-> "bq-to-supabase", name |-> name, sheets |-> Null, lastStatus |-> Null] :
        id \in BodyIds, name \in JobNames}
    \cup
    {[id |-> id, type |-> "sheets-to-bq", name |-> name, sheets |-> sh, lastStatus |-> Null] :
        id \in BodyIds, name \in JobNames,
        sh \in {Null} \cup {Some([spreadsheetUrl |-> u, spreadsheetId |-> Null,
                                  sheetName |-> n, range |-> r]) :
                               u \in SpreadsheetUrls, n \in SheetNames, r \in SheetRanges}}

RECURSIVE IdRun(_, _)
\* ([a-zA-Z0-9-_]+) from a position on
IdRun(url, i) ==
    IF i <= Len(url) /\ url[i] \in IdChars THEN <<url[i]>> \o IdRun(url, i + 1) ELSE <<>>

\* spreadsheetUrl.match(/\/spreadsheets\/d\/([a-zA-Z0-9-_]+)/): the first group of
\* the leftmost match, Null when there is none
match(url) ==
    LET at == {i \in 1..(Len(url) - 1) : url[i] = SegmentMarker /\ url[i + 1] \in IdChars}
    IN IF at = {} THEN Null
       ELSE LET i == CHOOSE i \in at : \A o \in at : i <= o
            IN Some(IdRun(url, i + 1))

\* a value that is there and not the empty string
Truthy(opt, empty) == opt # Null /\ opt[1] # empty

\* the checks POST and PUT make of a sheets-to-bq body: the error of the
\* answer, Null when the body goes on, and the body as it goes on
ValidateConfig(body) ==
    IF body.type # "sheets-to-bq" \/ body.sheets = Null
    THEN [error |-> Null, job |-> body]
    ELSE LET sh == body.sheets[1]
             hasUrl == Truthy(sh.spreadsheetUrl, <<>>)
             found == IF hasUrl THEN match(sh.spreadsheetUrl[1]) ELSE Null
             sh1 == IF hasUrl /\ found # Null THEN [sh EXCEPT !.spreadsheetId = found] ELSE sh
             sh2 == IF Truthy(sh1.sheetName, "") /\ ~Truthy(sh1.range, "")
                    THEN [sh1 EXCEPT !.range = sh1.sheetName] ELSE sh1
         IN IF hasUrl /\ found = Null
            THEN [error |-> Some("Invalid spreadsheet URL"), job |-> body]
            ELSE [error |-> Null, job |-> [body EXCEPT !.sheets = Some(sh2)]]

randomUUID(n) == "uuid-" \o ToString(n)

\* SYNC_CONFIGS.put, delete and get
KvPut(store, key, value) ==
    [k \in DOMAIN store \cup {key} |-> IF k = key THEN value ELSE store[k]]

KvDelete(store, key) == [k \in DOMAIN store \ {key} |-> store[k]]

KvGet(store, key) == IF key \in DOMAIN store THEN Some(store[key]) ELSE Null

\* the runs in flight on a key learn of a change made to it
Disturb(runs, key, change) ==
    {IF x.key = key THEN [x EXCEPT !.change = Some(change)] ELSE x : x \in runs}

StoreInit ==
    /\ StoreRest
    /\ configs = <<>>
    /\ lastReq = Null
    /\ inFlight = {}
    /\ finished = {}
    /\ adminCount = 0
    /\ syncCount = 0

\* POST /api/configs
PostConfig ==
    /\ adminCount < MaxAdmin
    /\ adminCount' = adminCount + 1
    /\ \E body \in ConfigBodies :
          LET v == ValidateConfig(body)
              id == IF Truthy(v.job.id, "") THEN v.job.id[1] ELSE randomUUID(adminCount')
              stored == [v.job EXCEPT !.id = Some(id)]
          IN IF v.error # Null
             THEN /\ lastReq' = Some([method |-> "POST", key |-> Null, body |-> body,
                                      status |-> 400, error |-> v.error, before |-> configs])
                  /\ UNCHANGED <<configs, inFlight>>
             ELSE /\ configs' = KvPut(configs, id, stored)
                  /\ inFlight' = Disturb(inFlight, id, [op |-> "put", job |-> Some(stored)])
                  /\ lastReq' = Some([method |-> "POST", key |-> Some(id), body |-> body,
                                      status |-> 200, error |-> Null, before |-> configs])
    /\ UNCHANGED <<finished, syncCount>>
    /\ UNCHANGED storeFrame

\* PUT /api/configs/:id
PutConfig ==
    /\ adminCount < MaxAdmin
    /\ adminCount' = adminCount + 1
    /\ \E id \in PathIds, body \in ConfigBodies :
          LET v == ValidateConfig(body)
          IN IF v.error # Null
             THEN /\ lastReq' = Some([method |-> "PUT", key |-> Null, body |-> body,
                                      status |-> 400, error |-> v.error, before |-> configs])
                  /\ UNCHANGED <<configs, inFlight>>
             ELSE /\ configs' = KvPut(configs, id, v.job)
                  /\ inFlight' = Disturb(inFlight, id, [op |-> "put", job |-> Some(v.job)])
                  /\ lastReq' = Some([method |-> "PUT", key |-> Some(id), body |-> body,
                                      status |-> 200, error |-> Null, before |-> configs])
    /\ UNCHANGED <<finished, syncCount>>
    /\ UNCHANGED storeFrame

\* DELETE /api/configs/:id
DeleteConfig ==
    /\ adminCount < MaxAdmin
    /\ adminCount' = adminCount + 1
    /\ \E id \in PathIds :
          /\ configs' = KvDelete(configs, id)
          /\ inFlight' = Disturb(inFlight, id, [op |-> "delete", job |-> Null])
    /\ lastReq' = Null
    /\ UNCHANGED <<finished, syncCount>>
    /\ UNCHANGED storeFrame

\* POST /api/sync/:id: the job is read from the store and its batch starts
SyncRequest ==
    /\ syncCount < MaxSyncs
    /\ \E id \in PathIds :
          /\ KvGet(configs, id) # Null
          /\ inFlight' = inFlight \cup {[no |-> syncCount + 1, key |-> id,
                                         job |-> KvGet(configs, id)[1], change |-> Null]}
    /\ syncCount' = syncCount + 1
    /\ lastReq' = Null
    /\ UNCHANGED <<configs, finished, adminCount>>
    /\ UNCHANGED storeFrame

\* runJobWithAutoContinuation at the end of a terminal or failed batch: the job
\* object read at the start gets its status and is put under job:${job.id}
StatusWrite ==
    \E x \in inFlight, status \in {"success", "error"} :
        LET written == [x.job EXCEPT !.lastStatus = Some(status)]
            key == IF x.job.id = Null THEN "undefined" ELSE x.job.id[1]
        IN /\ configs' = KvPut(configs, key, written)
           /\ inFlight' = Disturb(inFlight \ {x}, key, [op |-> "put", job |-> Some(written)])
           /\ finished' = finished \cup {[no |-> x.no, key |-> x.key, writtenKey |-> key,
                                          change |-> x.change, before |-> configs,
                                          after |-> configs']}
           /\ lastReq' = Null
           /\ UNCHANGED <<adminCount, syncCount>>
           /\ UNCHANGED storeFrame

StoreNext ==
    \/ PostConfig
    \/ PutConfig
    \/ DeleteConfig
    \/ SyncRequest
    \/ StatusWrite

StoreSpec == StoreInit /\ [][StoreNext]_vars

(***************************************************************************)
(* Properties of the configuration store.                                  *)
(***************************************************************************)
\* the URL has a piece /spreadsheets/d/ followed by an id
HasSegment(url) ==
    \E i \in 1..(Len(url) - 1) : url[i] = SegmentMarker /\ url[i + 1] \in IdChars

\* the request answered last was a save of a sheets-to-bq job with sheets data
SheetsSave(methods) ==
    /\ lastReq # Null
    /\ lastReq[1].method \in methods
    /\ lastReq[1].body.type = "sheets-to-bq"
    /\ lastReq[1].body.sheets # Null

\* C31: a POST or PUT of a sheets-to-bq job whose spreadsheetUrl has no
\* /spreadsheets/d/<id> segment is answered 400 'Invalid spreadsheet URL' and
\* leaves the store as it was; with a valid URL the job is stored with
\* sheets.spreadsheetId the id of the URL and, when the body gives no range,
\* sheets.range the sheet name.
C31_SpreadsheetValidation ==
    (SheetsSave({"POST", "PUT"}) /\ lastReq[1].body.sheets[1].spreadsheetUrl # Null) =>
        LET req == lastReq[1]
            sh == req.body.sheets[1]
            url == sh.spreadsheetUrl[1]
        IN IF ~HasSegment(url)
           THEN /\ req.status = 400
                /\ req.error = Some("Invalid spreadsheet URL")
                /\ configs = req.before
           ELSE /\ req.status = 200
                /\ configs[req.key[1]].sheets[1].spreadsheetId = match(url)
                /\ (sh.range = Null /\ sh.sheetName # Null)
                      => configs[req.key[1]].sheets[1].range = sh.sheetName

\* C32: a POST of a sheets-to-bq job with a valid URL whose sheetName is not an
\* allowed sheet name is answered 400 'Invalid sheet name' and writes nothing
\* to the store.
C32_SheetNameValidation ==
    (/\ SheetsSave({"POST"})
     /\ lastReq[1].body.sheets[1].spreadsheetUrl # Null
     /\ HasSegment(lastReq[1].body.sheets[1].spreadsheetUrl[1])
     /\ lastReq[1].body.sheets[1].sheetName # Null
     /\ \A i \in DOMAIN SHEETS_WHITELIST :
            SHEETS_WHITELIST[i] # lastReq[1].body.sheets[1].sheetName[1]) =>
        /\ lastReq[1].status = 400
        /\ lastReq[1].error = Some("Invalid sheet name")
        /\ configs = lastReq[1].before

\* what the admin surface sets of a job: everything but the status of its runs
AdminFields(j) == [id |-> j.id, type |-> j.type, name |-> j.name, sheets |-> j.sheets]

\* C38: when a batch has finished and written the status of its job, a PUT made
\* to the job during the batch still has its field values in the store, and a
\* job deleted during the batch is still absent from the store.
C38_AdminChangePreserved ==
    \A f \in finished :
        f.change # Null =>
            IF f.change[1].op = "delete"
            THEN f.key \notin DOMAIN f.after
            ELSE /\ f.key \in DOMAIN f.after
                 /\ AdminFields(f.after[f.key]) = AdminFields(f.change[1].job[1])

\* C40: every value stored under job:{k} has id = k, and the status write of a
\* run of the job read from job:{k} writes to job:{k} and creates no other key.
C40_ConfigKey ==
    /\ \A k \in DOMAIN configs : configs[k].id = Some(k)
    /\ \A f \in finished :
          /\ f.writtenKey = f.key
          /\ DOMAIN f.after \subseteq DOMAIN f.before \cup {f.key}

(***************************************************************************)
(* The Run State of one spreadsheet run driven from the dashboard, on      *)
(* sheets of up to MaxWindows full windows: the position and total of      *)
(* handleSheetsToBigQuerySync, the continuation posted by                  *)
(* runJobWithAutoContinuation and the one posted by the loop of syncJob.   *)
(***************************************************************************)
\* getSheetRange(startRow:endRow) on a sheet of dataRows rows below the header
RowsOfRange(dataRows, startRow, endRow) ==
    LET lastRow == Min(endRow, dataRows + 1)
    IN IF lastRow < startRow THEN 0 ELSE lastRow - startRow + 1

WindowInit ==
    /\ WindowRest
    /\ longSheet \in 0..(MaxWindows * BATCH_SIZE)
    /\ sheetState = Null
    /\ posts = {}
    /\ running = {}
    /\ stateWrites = {}
    /\ windowReads = {}
    /\ dashStarted = FALSE
    /\ loadFailures = {}

\* syncJob: the dashboard posts batch 1
DashboardSync ==
    /\ ~dashStarted
    /\ dashStarted' = TRUE
    /\ posts' = posts \cup {[batchNumber |-> 1, from |-> "client"]}
    /\ UNCHANGED <<longSheet, sheetState, running, stateWrites, windowReads, loadFailures>>
    /\ UNCHANGED windowFrame

\* the state is advanced before the load
StateAtRead_Advanced(batch, state, rowCount) ==
    IF batch = 1 THEN Some([lastProcessedRow |-> 1 + rowCount, totalRows |-> rowCount])
    ELSE Some([lastProcessedRow |-> state[1].lastProcessedRow + rowCount,
               totalRows |-> state[1].totalRows + rowCount])

\* the state stored when the handler starts its load: batch 1 has written the
\* first state, a later batch has written nothing
StateAtRead(batch, state, rowCount) ==
    IF batch = 1 THEN Some([lastProcessedRow |-> 1, totalRows |-> 0]) ELSE state

\* the handler up to the read of its rows: batch 1 writes the first state and
\* reads from row 2, a later batch reads from the row after the stored position
\* and throws when no state is stored
ReadWindow ==
    \E p \in posts :
        LET startRow == IF p.batchNumber = 1 THEN 2 ELSE sheetState[1].lastProcessedRow + 1
            endRow == startRow + BATCH_SIZE - 1
        IN /\ posts' = posts \ {p}
           /\ IF p.batchNumber = 1
              THEN /\ sheetState' = StateAtRead(1, sheetState,
                                                 RowsOfRange(longSheet, startRow, endRow))
                   /\ running' = running \cup
                         {[batchNumber |-> 1, from |-> p.from, startRow |-> startRow,
                           totalRows |-> 0,
                           rowCount |-> RowsOfRange(longSheet, startRow, endRow),
                           before |-> sheetState, atRead |-> sheetState']}
                   /\ windowReads' = windowReads \cup {<<1, startRow>>}
              ELSE IF sheetState = Null
              THEN UNCHANGED <<sheetState, running, windowReads>>
              ELSE /\ sheetState' = StateAtRead(p.batchNumber, sheetState,
                                                 RowsOfRange(longSheet, startRow, endRow))
                   /\ running' = running \cup
                         {[batchNumber |-> p.batchNumber, from |-> p.from,
                           startRow |-> startRow, totalRows |-> sheetState[1].totalRows,
                           rowCount |-> RowsOfRange(longSheet, startRow, endRow),
                           before |-> sheetState, atRead |-> sheetState']}
                   /\ windowReads' = windowReads \cup {<<p.batchNumber, startRow>>}
           /\ UNCHANGED <<longSheet, stateWrites, dashStarted, loadFailures>>
           /\ UNCHANGED windowFrame

\* the handler after the load: with a full window the state is written and the
\* next batch is posted by the worker and, when the dashboard made the request,
\* by the dashboard; otherwise the state is deleted
WriteWindow ==
    \E inv \in running :
        LET hasMore == HasMore(inv.rowCount)
            nextStartRow == inv.startRow + inv.rowCount
            totalRows == inv.totalRows + inv.rowCount
        IN /\ running' = running \ {inv}
           /\ IF hasMore
              THEN /\ sheetState' = Some([lastProcessedRow |-> nextStartRow - 1,
                                          totalRows |-> totalRows])
                   /\ stateWrites' = stateWrites \cup
                         {<<inv.batchNumber, nextStartRow - 1, totalRows>>}
                   /\ posts' = posts \cup
                         {[batchNumber |-> inv.batchNumber + 1, from |-> "server"]} \cup
                         (IF inv.from = "client"
                          THEN {[batchNumber |-> inv.batchNumber + 1, from |-> "client"]}
                          ELSE {})
              ELSE /\ sheetState' = Null
                   /\ UNCHANGED <<stateWrites, posts>>
           /\ UNCHANGED <<longSheet, windowReads, dashStarted, loadFailures>>
           /\ UNCHANGED windowFrame

\* the load throws: the state stays as it is
LoadThrows ==
    \E inv \in running :
        /\ inv.rowCount > 0
        /\ running' = running \ {inv}
        /\ UNCHANGED <<longSheet, sheetState, posts, stateWrites, windowReads, dashStarted>>
        /\ loadFailures' = loadFailures \cup
              {[batchNumber |-> inv.batchNumber, before |-> inv.before, atRead |-> inv.atRead,
                atThrow |-> sheetState, after |-> sheetState']}
        /\ UNCHANGED windowFrame

WindowNext ==
    \/ DashboardSync
    \/ ReadWindow
    \/ WriteWindow
    \/ LoadThrows

WindowSpec == WindowInit /\ [][WindowNext]_vars

(***************************************************************************)
(* Properties of the spreadsheet Run State.                                *)
(***************************************************************************)
\* C36: every spreadsheet Run State written has totalRows = lastProcessedRow - 1,
\* the state written by non-terminal batch b has lastProcessedRow =
\* 1 + BATCH_SIZE * b, and the window batch b reads starts at row
\* 2 + BATCH_SIZE * (b - 1).
C36_SheetWindows ==
    /\ sheetState # Null => sheetState[1].totalRows = sheetState[1].lastProcessedRow - 1
    /\ \A w \in stateWrites : w[3] = w[2] - 1 /\ w[2] = 1 + BATCH_SIZE * w[1]
    /\ \A r \in windowReads : r[2] = 2 + BATCH_SIZE * (r[1] - 1)

KeyIds == {7, MAX_SAFE_INTEGER, MAX_SAFE_INTEGER + 2}

KeyDays == {1, 2}

\* the rows of either table, by the integers they hold
IntRows == {[id |-> i, n |-> k] : i \in KeyIds, k \in KeyDays}

\* a row of the source as query_paginated yields it
BigQueryRow(r, forceSet) ==
    [c \in RangeOf(FieldNames) |->
        ParseValue([name |-> c, type |-> "INTEGER"], Some(ToDecimalString(r[c])), forceSet)]

\* a row of the sink as its REST interface returns it
SupabaseRow(r) == [c \in RangeOf(FieldNames) |-> AsNumber(ToNumber(r[c]))]

KeysInit ==
    /\ KeysRest
    /\ keyColumns \in {<<"id">>, <<"id", "n">>}
    /\ keyForceSet \in {{}, {"id"}}
    /\ bqKeyInts \in SUBSET IntRows
    /\ sbKeyInts \in SUBSET IntRows
    /\ deleteCandidates = Null

\* the delete scan: the sink rows whose serialized key no source row has
DetectDeletes ==
    /\ deleteCandidates = Null
    /\ deleteCandidates' =
          Some(idsToDelete({BigQueryRow(r, keyForceSet) : r \in bqKeyInts},
                           {SupabaseRow(r) : r \in sbKeyInts}, keyColumns))
    /\ UNCHANGED <<keyColumns, keyForceSet, bqKeyInts, sbKeyInts>>
    /\ UNCHANGED keysFrame

KeysNext == DetectDeletes

KeysSpec == KeysInit /\ [][KeysNext]_vars

(***************************************************************************)
(* Properties of delete detection.                                         *)
(***************************************************************************)
\* the key values of two rows are equal in every upsert column
SameKeyValues(r1, r2) == \A i \in DOMAIN keyColumns : r1[keyColumns[i]] = r2[keyColumns[i]]

\* C35: the delete candidates are exactly the keys of the sink rows whose key
\* values are those of no source row, for one and for two upsert columns; a
\* sink row whose key values equal those of a source row is no candidate,
\* also when the source carries the integer as a string and the sink returns
\* a number.
C35_DeleteCandidates ==
    deleteCandidates # Null =>
        deleteCandidates[1] =
            {serializeKey(SupabaseRow(t), keyColumns) :
                t \in {u \in sbKeyInts : ~(\E b \in bqKeyInts : SameKeyValues(u, b))}}

(***************************************************************************)
(* The run index under concurrent runs of one job: startRun and endRun     *)
(* each read the index from the store and write it back, with an await     *)
(* between the two.                                                        *)
(***************************************************************************)
IndexRunIds == 1..MaxIndexRuns

\* the index an earlier run has left
EarlierRuns == {<<>>, <<[runId |-> 0, status |-> "success"]>>}

IndexInit ==
    /\ IndexRest
    /\ indexRuns \in EarlierRuns
    /\ indexCall = [r \in IndexRunIds |-> [pc |-> "new", runs |-> <<>>, status |-> ""]]

\* startRun up to its kv.get of the index
StartRunGet ==
    \E r \in IndexRunIds :
        /\ indexCall[r].pc = "new"
        /\ indexCall' = [indexCall EXCEPT ![r] = [@ EXCEPT !.pc = "startRead", !.runs = indexRuns]]
        /\ UNCHANGED indexRuns
        /\ UNCHANGED indexFrame

\* startRun from its kv.put of the index
StartRunPut ==
    \E r \in IndexRunIds :
        /\ indexCall[r].pc = "startRead"
        /\ indexRuns' = startRun(indexCall[r].runs, r)
        /\ indexCall' = [indexCall EXCEPT ![r] = [@ EXCEPT !.pc = "running", !.runs = <<>>]]
        /\ UNCHANGED indexFrame

\* endRun(kv, status) up to its kv.get of the index
EndRunGet ==
    \E r \in IndexRunIds, status \in {"success", "error"} :
        /\ indexCall[r].pc = "running"
        /\ indexCall' = [indexCall EXCEPT ![r] = [pc |-> "endRead", runs |-> indexRuns,
                                                  status |-> status]]
        /\ UNCHANGED indexRuns
        /\ UNCHANGED indexFrame

\* endRun from its kv.put of the index
EndRunPut ==
    \E r \in IndexRunIds :
        /\ indexCall[r].pc = "endRead"
        /\ indexRuns' = endRun(indexCall[r].runs, r, indexCall[r].status)
        /\ indexCall' = [indexCall EXCEPT ![r] = [@ EXCEPT !.pc = "ended", !.runs = <<>>]]
        /\ UNCHANGED indexFrame

IndexNext ==
    \/ StartRunGet
    \/ StartRunPut
    \/ EndRunGet
    \/ EndRunPut

IndexSpec == IndexInit /\ [][IndexNext]_vars

(***************************************************************************)
(* Properties of the run index.                                            *)
(***************************************************************************)
\* C39: once the startRun calls of the runs started together have completed,
\* every one of the runs is in the index, and the index shows a run as running
\* until its own endRun has completed and with the status of its own endRun
\* from then on.
C39_RunIndexComplete ==
    (\A r \in IndexRunIds : indexCall[r].pc \in {"running", "endRead", "ended"}) =>
        \A r \in IndexRunIds :
            \E i \in DOMAIN indexRuns :
                /\ indexRuns[i].runId = r
                /\ indexRuns[i].status = IF indexCall[r].pc = "ended" THEN indexCall[r].status
                                         ELSE "running"

(***************************************************************************)
(* Properties of the dispatch layer.                                       *)
(***************************************************************************)
\* a batch of the run is under way
Busy(r) == \E inv \in active : inv.runId = r

\* the status of the run in the run index is one of the set
StatusIn(runs, r, statuses) ==
    \A i \in DOMAIN runs : runs[i].runId = r => runs[i].status \in statuses

\* C11: Run State exists exactly while its run is mid-flight: it is present
\* after batch 1 and after every non-terminal batch (as long as the key has not
\* expired), absent once the terminal batch has returned success, and absent
\* once the run has ended in error.
C11_StateWhileMidFlight ==
    \A r \in RunIds :
        /\ (r \in terminalDone /\ ~Busy(r)) => kv[r] = None
        /\ (r \in threw /\ ~Busy(r)) => kv[r] = None
        /\ ((\E i \in DOMAIN startLog : startLog[i] = <<r, 1>>)
              /\ r \notin terminalDone /\ r \notin threw /\ r \notin expired)
           => kv[r] # None

\* C12: a batch after the first whose Run State is missing fails at once: no
\* invocation reads the sheet, nothing is loaded into the destination, the
\* state store is not written, the run's entry in the index ends as error, the
\* job gets lastStatus = error and a POST caller gets the 500.
C12_RunExpired ==
    [][\A c \in calls :
          (BeginBatch(c) /\ c.batchNumber > 1 /\ kv[c.runId] = None)
          => /\ active' = active
             /\ bqTable' = bqTable
             /\ loadLog' = loadLog
             /\ kv' = kv
             /\ StatusIn(runsIndex', c.runId, {"error"})
             /\ cfg'.lastStatus = "error"
             /\ cfg'.lastError = "Sync state not found"
             /\ c.from = "client" => (response'.status = 500 /\ ~response'.hasMore)]_vars

\* a batch after the first has failed on its missing state and left the run's
\* entry as error
C12_Witness ==
    /\ cfg.lastError = "Sync state not found"
    /\ \E r \in threw \cap expired :
          \E i \in DOMAIN runsIndex : runsIndex[i].runId = r /\ runsIndex[i].status = "error"

\* C13: a batch reports hasMore = true exactly when the page it read is full;
\* then the state has been rewritten with the new position and totals and
\* nextBatch is the batch number plus one; otherwise the batch is terminal: it
\* reports hasMore = false, the state is gone and the run is ended as success.
C13_HasMoreIffFullPage ==
    [][\A inv \in active :
          FinishBatch(inv)
          => IF inv.rowCount = BATCH_SIZE
             THEN /\ kv'[inv.runId] = [lastProcessedRow |-> inv.startRow + BATCH_SIZE - 1,
                                       totalRows |-> inv.totalRows + BATCH_SIZE]
                  /\ inv.from = "client"
                     => (response'.hasMore /\ response'.nextBatch = inv.batchNumber + 1)
             ELSE /\ kv'[inv.runId] = None
                  /\ inv.runId \in terminalDone'
                  /\ StatusIn(runsIndex', inv.runId, {"success"})
                  /\ inv.from = "client" => ~response'.hasMore]_vars

\* a batch with a full page has returned hasMore to the dashboard with the
\* state rewritten
C13_Witness ==
    /\ response.present
    /\ response.ok
    /\ response.hasMore
    /\ kv[response.runId] # None
    /\ kv[response.runId].lastProcessedRow = 1 + BATCH_SIZE * (response.nextBatch - 1)

\* C14: when a batch fails, the stored job gets lastStatus = error and lastError
\* = the message of the error, its lastSummary stays as it was in the store,
\* and a POST caller gets the 500 with the message.
C14_FailureOnJob ==
    [][\A inv \in active :
          FailBatch(inv)
          => /\ cfg'.lastStatus = "error"
             /\ cfg'.lastError \in ErrorMessages
             /\ cfg'.lastSummary = cfg.lastSummary
             /\ inv.from = "client"
                => (response'.status = 500 /\ response'.error = cfg'.lastError)]_vars

C16_RunOutcome ==
    \A r \in RunIds :
        ~Busy(r) =>
            /\ r \in terminalDone => StatusIn(runsIndex, r, {"success"})
            /\ r \in threw => StatusIn(runsIndex, r, {"error"})

\* nothing is in flight: no call is pending, no batch is under way, the
\* dashboard's loop has ended
Quiescent ==
    /\ calls = {}
    /\ active = {}
    /\ ~response.present
    /\ client.pc = "idle"

\* C17: no error is swallowed: once nothing is in flight, every run of which a
\* next-batch request failed has ended as error and has written lastStatus.
C17_NoErrorSwallowed ==
    Quiescent =>
        \A r \in triggerLost :
            /\ StatusIn(runsIndex, r, {"error"})
            /\ r \in threw

\* C19: a load truncates exactly when it is the load of batch 1 of a job whose
\* append flag is not set, and appends otherwise; so no run truncates twice,
\* no batch after the first truncates, a job with append set never truncates,
\* and older content of the table is gone only after a truncating load.
C19_WriteMode ==
    /\ \A i \in DOMAIN loadLog :
          loadLog[i][5] = (IF loadLog[i][4] = 1 /\ ~append THEN "WRITE_TRUNCATE"
                           ELSE "WRITE_APPEND")
    /\ \A i, j \in DOMAIN loadLog :
          (i # j /\ loadLog[i][1] = loadLog[j][1])
          => ~(loadLog[i][5] = "WRITE_TRUNCATE" /\ loadLog[j][5] = "WRITE_TRUNCATE")
    /\ (\E i \in DOMAIN loadLog : loadLog[i][5] = "WRITE_TRUNCATE") => bqTable[0] = 0

\* a run has truncated with its first batch and appended with its second
C19_Witness ==
    \E i, j \in DOMAIN loadLog :
        /\ loadLog[i][1] = loadLog[j][1]
        /\ loadLog[i][4] = 1 /\ loadLog[i][5] = "WRITE_TRUNCATE"
        /\ loadLog[j][4] = 2 /\ loadLog[j][5] = "WRITE_APPEND"

\* C9: the batches of one run are serial: no batch of a run is begun twice, no
\* two invocations of one run are under way at the same time, and no rows of
\* the sheet are loaded twice by one run; this with the dashboard's loop and
\* the server's continuation both at work.
C9_SerialBatches ==
    /\ \A i, j \in DOMAIN startLog : i # j => startLog[i] # startLog[j]
    /\ \A a, b \in active : a.runId = b.runId => a = b
    /\ \A i, j \in DOMAIN loadLog :
          (i # j /\ loadLog[i][1] = loadLog[j][1])
          => Window(loadLog[i][2], loadLog[i][3]) \cap Window(loadLog[j][2], loadLog[j][3]) = {}

\* C10: once nothing is in flight, every run a scheduled firing started has
\* reached its end: lastStatus has been written for it and its entry in the
\* run index is no longer running.
C10_CronRunsEnd ==
    Quiescent =>
        \A r \in cronRuns :
            /\ r \in statusWritten
            /\ \A i \in DOMAIN runsIndex :
                  runsIndex[i].runId = r => runsIndex[i].status # "running"

(***************************************************************************)
(* Properties of a run of the sync engine.                                 *)
(***************************************************************************)
SourceKeys == {KeyOf(r) : r \in source}

\* the keys of the source rows the filter of the run lets through
FilteredKeys == {KeyOf(r) : r \in {t \in source : PassFilter(t, lastSyncAtStart)}}

UpsertedKeys == UNION {upserted[i] : i \in DOMAIN upserted}

\* C1: with a static source and the batches of a run fetched serially to the
\* end, every source row that passes the filter of the run is in exactly one
\* batch: no batch repeats a row of another batch, and once the last page is
\* upserted no filtered row has been left out.
C1_ExactlyOnce ==
    /\ \A i, j \in DOMAIN upserted : i # j => upserted[i] \cap upserted[j] = {}
    /\ pc \in {"FinalDeleteScan", "Delete", "Success"} => UpsertedKeys = FilteredKeys

\* C1 for jobs with one upsert column
C1_ExactlyOnceSingleKey == Len(job.upsertColumns) = 1 => C1_ExactlyOnce

\* C33: delete detection runs only in the terminal batch of a run: while a
\* batch fetches, upserts, persists or has returned hasMore = true no delete
\* scan has been made in the run and no row has been deleted, and the delete
\* scan and the deletes happen in a batch whose page is short of BATCH_LIMIT
\* and whose sub-batches have all been upserted.
C33_DeleteInTerminalBatch ==
    /\ pc \in {"Fetch", "Upsert", "Persist", "Returned"}
          => rowsDeleted = 0 /\ sinkBeforeDelete = Null /\ toDelete = <<>>
    /\ pc \in {"FinalDeleteScan", "Delete"}
          => Len(page) < BATCH_LIMIT /\ subIdx = Len(page)
    /\ sinkBeforeDelete # Null
          => Len(page) < BATCH_LIMIT /\ subIdx = Len(page)

\* the second batch of a run, after a batch that returned hasMore = true, has
\* upserted its page and deleted a row
C33_Witness ==
    /\ pc = "Delete"
    /\ batchNumber = 2
    /\ Len(cursorLog) = 1
    /\ Len(page) = 1
    /\ subIdx = 1
    /\ rowsDeleted > 0

\* C2: the cursor tuples persisted by the successive batches of a run are
\* strictly increasing in the lexicographic order of (incremental value,
\* tie-breaker value).
C2_CursorMonotone ==
    \A i \in 1..(Len(cursorLog) - 1) : CursorLess(cursorLog[i], cursorLog[i + 1])

\* two batches of one run have persisted a cursor, on rows with equal
\* incremental values
C2_Witness ==
    /\ Len(cursorLog) >= 2
    /\ job.incrementalColumn = "inc"
    /\ cursorLog[1].inc = cursorLog[2].inc

\* C3: from any initial sink, a run over a static source that ends in Success
\* leaves, for every source row, a sink row with the same key and the same
\* values in the source columns.
C3_RoundTrip ==
    pc = "Success" => \A r \in source : \E s \in sink : Data(s) = r

\* C4: after a run ends in Success no sink row has a key that is absent from
\* the source.
C4_NoOrphans ==
    pc = "Success" => \A s \in sink : KeyOf(s) \in SourceKeys

\* C4, amended: after a run whose source key scan returned at least one row
\* ends in Success, no sink row has a key that is absent from the source.
C4_NoOrphansNonEmptySource ==
    (pc = "Success" /\ source # {}) => \A s \in sink : KeyOf(s) \in SourceKeys

\* a successful run over a non-empty source has deleted a sink row
C4_Witness ==
    pc = "Success" /\ source # {} /\ rowsDeleted > 0

\* what gate C leaves behind: the run has failed with DestructiveAnomaly and the
\* delete phase has removed nothing
AnomalyOutcome ==
    /\ pc = "Failed"
    /\ lastError = "DestructiveAnomaly"
    /\ rowsDeleted = 0
    /\ sink = sinkBeforeDelete[1]

\* C5: a run that starts on a sink of at least 2 rows with at most half as many
\* source keys as sink keys ends with DestructiveAnomaly, its delete phase
\* leaving the sink unchanged.
C5_GateCAtMostHalf ==
    (/\ runNo >= 1
     /\ Cardinality(sinkAtStart) >= 2
     /\ 2 * Cardinality(SourceKeys) <= Cardinality(sinkAtStart))
    => /\ pc # "Success"
       /\ sinkBeforeDelete # Null => AnomalyOutcome

\* C5, amended: a run that starts on a sink of at least 2 rows with at least one
\* source key and strictly fewer than half as many source keys as sink keys
\* never ends in Success, and once its delete phase has run it has ended with
\* DestructiveAnomaly, the delete phase leaving the sink unchanged.
C5_GateCBelowHalf ==
    (/\ runNo >= 1
     /\ Cardinality(sinkAtStart) >= 2
     /\ Cardinality(SourceKeys) >= 1
     /\ 2 * Cardinality(SourceKeys) < Cardinality(sinkAtStart))
    => /\ pc # "Success"
       /\ sinkBeforeDelete # Null => AnomalyOutcome

\* such a run has reached its delete phase with upserted rows and failed there
C5_Witness ==
    /\ Cardinality(sinkAtStart) >= 2
    /\ Cardinality(SourceKeys) >= 1
    /\ 2 * Cardinality(SourceKeys) < Cardinality(sinkAtStart)
    /\ UpsertedKeys # {}
    /\ pc = "Failed"
    /\ lastError = "DestructiveAnomaly"

\* C6: when the delete phase has computed its candidates, they are the sink
\* keys absent from the source; if they are strictly more than half of the sink
\* keys the phase has failed with DestructiveAnomaly and removed no row;
\* otherwise the deletes proceed and the run ends with exactly the candidates
\* removed.
C6_Threshold ==
    candidatesSeen # Null =>
        LET before == sinkBeforeDelete[1]
            candidates == {KeyOf(s) : s \in before} \ SourceKeys
        IN /\ candidatesSeen[1] = candidates
           /\ IF 2 * Cardinality(candidates) > Cardinality(before)
              THEN AnomalyOutcome
              ELSE /\ pc \in {"Delete", "Success"}
                   /\ lastError = ""
                   /\ pc = "Success" =>
                         /\ rowsDeleted = Cardinality(candidates)
                         /\ sink = {s \in before : KeyOf(s) \notin candidates}

\* the candidates were exactly half of the sink keys and have been deleted
C6_Witness ==
    /\ candidatesSeen # Null
    /\ candidatesSeen[1] # {}
    /\ 2 * Cardinality(candidatesSeen[1]) = Cardinality(sinkBeforeDelete[1])
    /\ pc = "Success"
    /\ rowsDeleted = Cardinality(candidatesSeen[1])

\* C7: when the source key scan returns no row, the run does not fail, and its
\* delete phase logs a WARNING, deletes no sink row and reports 0 rows deleted
\* on the way to Success.
C7_GateA ==
    (source = {} /\ runNo >= 1) =>
        /\ pc # "Failed"
        /\ sink = sinkAtStart
        /\ sinkBeforeDelete # Null =>
              /\ pc \in {"Delete", "Success"}
              /\ toDelete = <<>>
              /\ rowsDeleted = 0
              /\ <<"WARNING", "DELETE_DETECTION">> \in logs

\* a run over an empty source and a non-empty sink has ended in Success
C7_Witness ==
    source = {} /\ sink # {} /\ pc = "Success"

\* C8: of two runs back to back over an unchanged source that both end in
\* Success, the second leaves the sink as the first left it, synced_at aside.
C8_Idempotent ==
    \A i \in 1..(Len(sinkAfterRun) - 1) :
        sinkAfterRun[i + 1].run = sinkAfterRun[i].run + 1
        => {Data(s) : s \in sinkAfterRun[i + 1].table} = {Data(s) : s \in sinkAfterRun[i].table}

\* the rows of the page batch 1 has fetched, once it has fetched it
FirstPageFetched ==
    /\ batchNumber = 1
    /\ Len(upserted) = 1
    /\ upserted[1] = {}
    /\ pc \in {"Upsert", "FinalDeleteScan"}

PageRows == {page[i] : i \in DOMAIN page}

Init == EngineInit /\ DispatchAtRest /\ ApiAtRest /\ LibAtRest

Next == EngineNext

Spec == Init /\ [][Next]_vars

=============================================================================
